---- MODULE Spec2Model ----
(***************************************************************************)
(* A model of exm, the exam timetabling script: the parser of constraint   *)
(* cells, the builder of EXM CSP variables, the pool of variables and its  *)
(* iterator, the loader of indirect variables, the filter of domains, the  *)
(* assembly of the CSP task and the call of the solver.                    *)
(*                                                                         *)
(* Python strings are sequences of one-character strings, so that the      *)
(* regular expressions of exm.py are matched character by character.       *)
(***************************************************************************)
EXTENDS Integers, Sequences, FiniteSets, TLC

\* ------------------------------------------------------------------------
\* characters and text
\* ------------------------------------------------------------------------

Digits == <<"0", "1", "2", "3", "4", "5", "6", "7", "8", "9">>

UpperLetters ==
    {"A", "B", "C", "D", "E", "F", "G", "H", "I", "J", "K", "L", "M",
     "N", "O", "P", "Q", "R", "S", "T", "U", "V", "W", "X", "Y", "Z"}

LowerLetters ==
    {"a", "b", "c", "d", "e", "f", "g", "h", "i", "j", "k", "l", "m",
     "n", "o", "p", "q", "r", "s", "t", "u", "v", "w", "x", "y", "z"}

\* \d
IsDigit(c) == \E i \in 1..Len(Digits) : Digits[i] = c

\* [a-zA-Z]
IsAlpha(c) == c \in UpperLetters \cup LowerLetters

\* \s
IsSpace(c) == c \in {" ", "\t", "\n", "\r"}

\* [/-]
IsDateSep(c) == c \in {"/", "-"}

DigitVal(c) == (CHOOSE i \in 1..Len(Digits) : Digits[i] = c) - 1

Min(S) == CHOOSE x \in S : \A y \in S : x <= y

Max(S) == CHOOSE x \in S : \A y \in S : x >= y

\* the character of s at position p, or the empty string past the end
At(s, p) == IF p >= 1 /\ p <= Len(s) THEN s[p] ELSE ""

StartsWith(s, p, t) ==
    /\ p + Len(t) - 1 <= Len(s)
    /\ SubSeq(s, p, p + Len(t) - 1) = t

\* int() of a text of decimal digits
RECURSIVE IntOf(_)
IntOf(s) ==
    IF s = <<>> THEN 0
    ELSE 10 * IntOf(SubSeq(s, 1, Len(s) - 1)) + DigitVal(s[Len(s)])

\* str() of a natural number
RECURSIVE StrOf(_)
StrOf(n) ==
    IF n < 10 THEN <<Digits[n + 1]>>
    ELSE StrOf(n \div 10) \o <<Digits[(n % 10) + 1]>>

\* the first position from p on that holds no white space (\s*)
RECURSIVE SkipSpace(_, _)
SkipSpace(s, p) ==
    IF p <= Len(s) /\ IsSpace(s[p]) THEN SkipSpace(s, p + 1) ELSE p

\* the number of digits from p on, at most n (\d{1,n}, greedy)
RECURSIVE CountDigits(_, _, _)
CountDigits(s, p, n) ==
    IF n > 0 /\ p <= Len(s) /\ IsDigit(s[p])
    THEN 1 + CountDigits(s, p + 1, n - 1)
    ELSE 0

\* the number of letters from p on ([a-zA-Z]+, greedy)
RECURSIVE CountAlpha(_, _)
CountAlpha(s, p) ==
    IF p <= Len(s) /\ IsAlpha(s[p]) THEN 1 + CountAlpha(s, p + 1) ELSE 0

\* str.strip() leaves nothing
IsBlank(s) == \A i \in 1..Len(s) : IsSpace(s[i])

\* RE_SEP_CONSTRAINT.split(instr): the fragments between commas
RECURSIVE SplitFrom(_, _, _)
SplitFrom(s, p, acc) ==
    IF p > Len(s) THEN <<acc>>
    ELSE IF s[p] = "," THEN <<acc>> \o SplitFrom(s, p + 1, <<>>)
    ELSE SplitFrom(s, p + 1, Append(acc, s[p]))

Split(s) == SplitFrom(s, 1, <<>>)

\* ------------------------------------------------------------------------
\* dates and times (the datetime module, as far as exm uses it)
\* ------------------------------------------------------------------------

IsLeap(y) == (y % 4 = 0) /\ ((y % 100 # 0) \/ (y % 400 = 0))

DaysInMonth(y, m) ==
    IF m = 2 THEN (IF IsLeap(y) THEN 29 ELSE 28)
    ELSE IF m \in {4, 6, 9, 11} THEN 30 ELSE 31

\* the days of the months before month m of year y
RECURSIVE DaysBeforeMonth(_, _)
DaysBeforeMonth(y, m) ==
    IF m <= 1 THEN 0 ELSE DaysBeforeMonth(y, m - 1) + DaysInMonth(y, m - 1)

\* date.toordinal(): 1 is the first of January of year 1
ToOrdinal(y, m, d) ==
    (y - 1) * 365 + ((y - 1) \div 4) - ((y - 1) \div 100) + ((y - 1) \div 400)
      + DaysBeforeMonth(y, m) + d

\* the arguments datetime.datetime(y, m, d) accepts
ValidDate(y, m, d) ==
    /\ y >= 1 /\ y <= 9999
    /\ m >= 1 /\ m <= 12
    /\ d >= 1 /\ d <= DaysInMonth(y, m)

\* the arguments datetime.time(h, mi, s) accepts
ValidTime(h, mi, s) ==
    /\ h >= 0 /\ h <= 23
    /\ mi >= 0 /\ mi <= 59
    /\ s >= 0 /\ s <= 59

\* datetime.time(h, mi, s)
Time(h, mi, s) == [hour |-> h, minute |-> mi, second |-> s]

\* datetime.datetime(y, m, d, h, mi, s) and datetime.datetime.combine
DateTime(y, m, d, h, mi, s) ==
    [year |-> y, month |-> m, day |-> d, hour |-> h, minute |-> mi, second |-> s]

\* datetime.date(): the date portion, ordered as its ordinal
DateOf(dt) == ToOrdinal(dt.year, dt.month, dt.day)

\* the time of day, in seconds since midnight: datetime.time values and the
\* time() portion of a datetime are ordered by it
SecondsOf(t) == t.hour * 3600 + t.minute * 60 + t.second

\* datetime.time(): the time of day of a datetime
TimeOf(dt) == Time(dt.hour, dt.minute, dt.second)

\* (a - b).total_seconds() of two datetimes; a > b when it is positive
TotalSeconds(a, b) ==
    (DateOf(a) - DateOf(b)) * 86400 + SecondsOf(a) - SecondsOf(b)

\* datetime.datetime.fromordinal(1) and datetime.time(): the unset date and time
UnsetDate == DateTime(1, 1, 1, 0, 0, 0)

UnsetTime == Time(0, 0, 0)

\* ------------------------------------------------------------------------
\* the regular expressions of exm.py
\* ------------------------------------------------------------------------

NoMatch == [ok |-> FALSE]

\* (=|!=|<|<=|>|>=)? : the alternatives in the order the regex tries them,
\* the empty one last
OperatorAlternatives ==
    << <<"=">>, <<"!", "=">>, <<"<">>, <<"<", "=">>, <<">">>, <<">", "=">>, <<>> >>

OperatorSymbols == <<"=", "!=", "<", "<=", ">", ">=", "">>

\* [/-](?P<day>\d{1,2}) at position b, after the year at a and the month
DayAt(s, a, b) ==
    IF IsDateSep(At(s, b)) /\ CountDigits(s, b + 1, 2) >= 1
    THEN [ok |-> TRUE,
          year |-> SubSeq(s, a, a + 3),
          month |-> SubSeq(s, a + 5, b - 1),
          day |-> SubSeq(s, b + 1, b + CountDigits(s, b + 1, 2))]
    ELSE NoMatch

\* (?P<year>\d{4})[/-](?P<month>\d{1,2})[/-](?P<day>\d{1,2}) at position a
DateAt(s, a) ==
    IF /\ CountDigits(s, a, 4) = 4
       /\ IsDateSep(At(s, a + 4))
       /\ CountDigits(s, a + 5, 2) >= 1
    THEN DayAt(s, a, a + 5 + CountDigits(s, a + 5, 2))
    ELSE NoMatch

\* \s*(?P<year>\d{4})[/-](?P<month>\d{1,2})[/-](?P<day>\d{1,2})
DateTail(s, q) == DateAt(s, SkipSpace(s, q))

\* \s*(?P<qualifier>(AM|PM)?) at position g
QualifierAt(s, g) ==
    IF StartsWith(s, g, <<"A", "M">>) THEN "AM"
    ELSE IF StartsWith(s, g, <<"P", "M">>) THEN "PM"
    ELSE ""

\* (?P<seconds>(:\d{1,2})?)\s*(?P<qualifier>(AM|PM)?) at position e, after
\* the hour at a and the minutes at c + 1; ns is the number of digits of the
\* seconds
SecondsAt(s, a, c, e, ns) ==
    [ok |-> TRUE,
     hour |-> SubSeq(s, a, c - 1),
     minutes |-> SubSeq(s, c + 1, e - 1),
     seconds |-> IF ns > 0 THEN SubSeq(s, e, e + ns) ELSE <<>>,
     qualifier |-> QualifierAt(s, SkipSpace(s, IF ns > 0 THEN e + 1 + ns ELSE e))]

\* :(?P<minutes>\d{1,2}) and what follows at position c, after the hour at a
MinutesAt(s, a, c, e) ==
    IF At(s, c) = ":" /\ e > c + 1
    THEN SecondsAt(s, a, c, e,
                   IF At(s, e) = ":" THEN CountDigits(s, e + 1, 2) ELSE 0)
    ELSE NoMatch

\* (?P<hour>\d{1,2}) and what follows at position a; c is the position after
\* the hour
HourAt(s, a, c) ==
    IF c > a
    THEN MinutesAt(s, a, c, c + 1 + CountDigits(s, c + 1, 2))
    ELSE NoMatch

\* \s*(?P<hour>\d{1,2}):(?P<minutes>\d{1,2})(?P<seconds>(:\d{1,2})?)\s*(?P<qualifier>(AM|PM)?)
TimeTail(s, q) ==
    HourAt(s, SkipSpace(s, q), SkipSpace(s, q) + CountDigits(s, SkipSpace(s, q), 2))

\* [a-zA-Z]+\d+ at position p: na letters and then nd digits
CellOf(s, p, na, nd) ==
    IF na >= 1 /\ nd >= 1
    THEN [ok |-> TRUE,
          column |-> SubSeq(s, p, p + na - 1),
          row |-> SubSeq(s, p + na, p + na + nd - 1)]
    ELSE NoMatch

\* [a-zA-Z]+\d+ at position p
CellAt(s, p) ==
    CellOf(s, p, CountAlpha(s, p),
           CountDigits(s, p + CountAlpha(s, p), Len(s)))

\* the dots of s from position a on that a cell follows
Dots(s, a) == {e \in a..Len(s) : s[e] = "." /\ CellAt(s, e + 1).ok}

\* ((?P<sheet>\$.+)\.)?(?P<cell>[a-zA-Z]+\d+) at position a: the sheet is
\* greedy, so it runs to the last dot that a cell follows
BiAt(s, a) ==
    IF At(s, a) = "$" /\ Dots(s, a + 2) # {}
    THEN [ok |-> TRUE,
          sheet |-> SubSeq(s, a, Max(Dots(s, a + 2)) - 1),
          cell |-> CellAt(s, Max(Dots(s, a + 2)) + 1).column
                     \o CellAt(s, Max(Dots(s, a + 2)) + 1).row]
    ELSE IF CellAt(s, a).ok
    THEN [ok |-> TRUE,
          sheet |-> <<>>,
          cell |-> CellAt(s, a).column \o CellAt(s, a).row]
    ELSE NoMatch

\* \s*((?P<sheet>\$.+)\.)?(?P<cell>[a-zA-Z]+\d+)
BiTail(s, q) == BiAt(s, SkipSpace(s, q))

\* the part of a pattern that follows its operator
TailOf(pattern, s, q) ==
    CASE pattern = "date" -> DateTail(s, q)
      [] pattern = "time" -> TimeTail(s, q)
      [] pattern = "binary" -> BiTail(s, q)

\* the alternatives of the operator at position p after which the tail of
\* the pattern matches
OperatorsAt(pattern, s, p) ==
    {k \in 1..Len(OperatorAlternatives) :
        /\ StartsWith(s, p, OperatorAlternatives[k])
        /\ TailOf(pattern, s, p + Len(OperatorAlternatives[k])).ok}

\* the match with the first of the alternatives ks of the operator
FirstOperator(pattern, s, p, ks) ==
    IF ks = {} THEN NoMatch
    ELSE [operator |-> OperatorSymbols[Min(ks)]]
           @@ TailOf(pattern, s, p + Len(OperatorAlternatives[Min(ks)]))

\* (?P<operator>(=|!=|<|<=|>|>=)?)<tail> at position p: the first
\* alternative of the operator after which the tail matches
OperatorAt(pattern, s, p) ==
    FirstOperator(pattern, s, p, OperatorsAt(pattern, s, p))

\* ^\s*(?P<operator>(=|!=|<|<=|>|>=)?)<tail>
MatchWithOperator(pattern, s) == OperatorAt(pattern, s, SkipSpace(s, 1))

RE_UNI_DATE_CONSTRAINT(s) == MatchWithOperator("date", s)

RE_UNI_TIME_CONSTRAINT(s) == MatchWithOperator("time", s)

RE_BICONSTRAINT(s) == MatchWithOperator("binary", s)

\* \$((?P<sheet>.*))\.(?P<column>[a-zA-Z]+)(?P<row>\d+) at position a
CellnameAt(s, a) ==
    IF At(s, a) = "$" /\ Dots(s, a + 1) # {}
    THEN [ok |-> TRUE,
          sheet |-> SubSeq(s, a + 1, Max(Dots(s, a + 1)) - 1),
          column |-> CellAt(s, Max(Dots(s, a + 1)) + 1).column,
          row |-> CellAt(s, Max(Dots(s, a + 1)) + 1).row]
    ELSE NoMatch

\* ^\s*\$((?P<sheet>.*))\.(?P<column>[a-zA-Z]+)(?P<row>\d+)
RE_CELLNAME(s) == CellnameAt(s, SkipSpace(s, 1))

\* ------------------------------------------------------------------------
\* exmconstraint.py and exmconstraints.py
\* ------------------------------------------------------------------------

\* EXMUniConstraint(operator, exmconst)
EXMUniConstraint(operator, exmconst) == [operator |-> operator, const |-> exmconst]

\* EXMBiConstraint(operator, exmvar)
EXMBiConstraint(operator, exmvar) == [operator |-> operator, var |-> exmvar]

\* EXMConstraints(): a dictionary from keys to lists of constraints, in the
\* order the keys were inserted: a sequence of entries [key, list]
EXMConstraints == <<>>

\* EXMConstraints.__contains__
Constraints_contains(c, key) == \E i \in 1..Len(c) : c[i].key = key

\* EXMConstraints.__len__
Constraints_len(c) == Len(c)

\* EXMConstraints.keys
Constraints_keys(c) == [i \in 1..Len(c) |-> c[i].key]

\* a variant of EXMConstraints.__setitem__ that replaces the list of a key
Constraints_setitem_replace(c, key, value) ==
    IF Constraints_contains(c, key)
    THEN [i \in 1..Len(c) |->
            IF c[i].key = key THEN [c[i] EXCEPT !.list = value] ELSE c[i]]
    ELSE Append(c, [key |-> key, list |-> value])

\* EXMConstraints.__setitem__
Constraints_setitem(c, key, value) ==
    IF Constraints_contains(c, key)
    THEN [i \in 1..Len(c) |->
            IF c[i].key = key THEN [c[i] EXCEPT !.list = @ \o value] ELSE c[i]]
    ELSE Append(c, [key |-> key, list |-> value])

\* EXMConstraints.__getitem__: the dictionary is a defaultdict(list), so that
\* reading a key it does not hold inserts the key with an empty list
Constraints_getitem(c, key) ==
    IF Constraints_contains(c, key)
    THEN [set |-> c,
          value |-> (CHOOSE e \in {c[i] : i \in 1..Len(c)} : e.key = key).list]
    ELSE [set |-> Append(c, [key |-> key, list |-> <<>>]), value |-> <<>>]

\* ------------------------------------------------------------------------
\* the parser of constraints (exm.py)
\* ------------------------------------------------------------------------

Raise(exception) == [ok |-> FALSE, raised |-> exception]

Return(value) == [ok |-> TRUE, value |-> value]

\* the operator of a match: '=' when none is given
OperatorOf(m) == IF m.operator = "" THEN "=" ELSE m.operator

\* the constraint of a match of RE_UNI_DATE_CONSTRAINT
uni_date_constraint(m, y, mo, d) ==
    IF ~ValidDate(y, mo, d) THEN Raise("ValueError")
    ELSE Return(EXMUniConstraint(OperatorOf(m), DateTime(y, mo, d, 0, 0, 0)))

get_uni_date_match(m) ==
    IF ~m.ok THEN Raise("ValueError")
    ELSE uni_date_constraint(m, IntOf(m.year), IntOf(m.month), IntOf(m.day))

get_uni_date_constraint(instr) ==
    get_uni_date_match(RE_UNI_DATE_CONSTRAINT(instr))

\* the constraint of a match of RE_UNI_TIME_CONSTRAINT
uni_time_constraint(m, hour, minutes, seconds) ==
    IF ~ValidTime(hour, minutes, seconds) THEN Raise("ValueError")
    ELSE Return(EXMUniConstraint(OperatorOf(m), Time(hour, minutes, seconds)))

\* a variant of get_uni_time_match that adds 12 hours to every time with PM
get_uni_time_match_pm(m) ==
    IF ~m.ok THEN Raise("ValueError")
    ELSE uni_time_constraint(m,
            IF m.qualifier = "PM" THEN IntOf(m.hour) + 12 ELSE IntOf(m.hour),
            IntOf(m.minutes),
            IF m.seconds = <<>> THEN 0
            ELSE IntOf(SubSeq(m.seconds, 2, Len(m.seconds))))

get_uni_time_match(m) ==
    IF ~m.ok THEN Raise("ValueError")
    ELSE uni_time_constraint(m,
            IF m.qualifier = "PM" /\ IntOf(m.hour) < 12
            THEN IntOf(m.hour) + 12 ELSE IntOf(m.hour),
            IntOf(m.minutes),
            IF m.seconds = <<>> THEN 0
            ELSE IntOf(SubSeq(m.seconds, 2, Len(m.seconds))))

get_uni_time_constraint(instr) ==
    get_uni_time_match(RE_UNI_TIME_CONSTRAINT(instr))

get_bi_match(m, sheetname) ==
    IF ~m.ok THEN Raise("ValueError")
    ELSE Return(EXMBiConstraint(OperatorOf(m),
                   IF m.sheet # <<>>
                   THEN m.sheet \o <<".">> \o m.cell
                   ELSE <<"$">> \o sheetname \o <<".">> \o m.cell))

get_biconstraint(instr, sheetname) ==
    get_bi_match(RE_BICONSTRAINT(instr), sheetname)

\* ERROR_CONSTRAINT, as LOGGER.error receives it
ErrorConstraint(iconstraint, sheetname, cellname) ==
    [error |-> "ERROR_CONSTRAINT", content |-> iconstraint,
     register |-> <<"$">> \o sheetname \o <<".">> \o cellname]

\* the loop of get_constraints over the fragments from the k-th on
RECURSIVE get_constraints_loop(_, _, _, _, _, _, _)
get_constraints_loop(fragments, k, sheetname, cellname, exm_uni_date, exm_uni_time, exm_bi) ==
    IF k > Len(fragments)
    THEN [ok |-> TRUE, uni_date |-> exm_uni_date, uni_time |-> exm_uni_time,
          bi |-> exm_bi, logged |-> <<>>]
    ELSE IF IsBlank(fragments[k])
    THEN get_constraints_loop(fragments, k + 1, sheetname, cellname,
                              exm_uni_date, exm_uni_time, exm_bi)
    ELSE IF get_uni_date_constraint(fragments[k]).ok
    THEN get_constraints_loop(fragments, k + 1, sheetname, cellname,
            Append(exm_uni_date, get_uni_date_constraint(fragments[k]).value),
            exm_uni_time, exm_bi)
    ELSE IF get_uni_time_constraint(fragments[k]).ok
    THEN get_constraints_loop(fragments, k + 1, sheetname, cellname,
            exm_uni_date,
            Append(exm_uni_time, get_uni_time_constraint(fragments[k]).value),
            exm_bi)
    ELSE IF get_biconstraint(fragments[k], sheetname).ok
    THEN get_constraints_loop(fragments, k + 1, sheetname, cellname,
            exm_uni_date, exm_uni_time,
            Append(exm_bi, get_biconstraint(fragments[k], sheetname).value))
    ELSE [ok |-> FALSE, raised |-> "SystemExit",
          logged |-> <<ErrorConstraint(fragments[k], sheetname, cellname)>>]

\* a variant of get_constraints that gives up on the cell, with no list,
\* instead of halting
get_constraints_lenient(instr, sheetname, cellname) ==
    IF instr = <<>>
       \/ ~get_constraints_loop(Split(instr), 1, sheetname, cellname,
                                <<>>, <<>>, <<>>).ok
    THEN [ok |-> TRUE, uni_date |-> <<>>, uni_time |-> <<>>, bi |-> <<>>,
          logged |-> <<>>]
    ELSE get_constraints_loop(Split(instr), 1, sheetname, cellname,
                              <<>>, <<>>, <<>>)

\* a variant of get_constraints that does not split the text at the commas
get_constraints_unsplit(instr, sheetname, cellname) ==
    IF instr = <<>>
    THEN [ok |-> TRUE, uni_date |-> <<>>, uni_time |-> <<>>, bi |-> <<>>,
          logged |-> <<>>]
    ELSE get_constraints_loop(<<instr>>, 1, sheetname, cellname,
                              <<>>, <<>>, <<>>)

\* get_constraints(instr, sheetname, cellname): the three lists of
\* constraints of a cell, or sys.exit()
get_constraints(instr, sheetname, cellname) ==
    IF instr = <<>>
    THEN [ok |-> TRUE, uni_date |-> <<>>, uni_time |-> <<>>, bi |-> <<>>,
          logged |-> <<>>]
    ELSE get_constraints_loop(Split(instr), 1, sheetname, cellname,
                              <<>>, <<>>, <<>>)

\* ------------------------------------------------------------------------
\* the values of the cells of a spreadsheet
\* ------------------------------------------------------------------------

\* a cell holds a string, an integer, a datetime, a date or a time: the
\* field of its type holds its value
Cell(type, text, number, date, time) ==
    [type |-> type, text |-> text, number |-> number, date |-> date,
     time |-> time]

StrCell(text) == Cell("str", text, 0, UnsetDate, UnsetTime)

IntCell(n) == Cell("int", <<>>, n, UnsetDate, UnsetTime)

DateTimeCell(dt) == Cell("datetime", <<>>, 0, dt, UnsetTime)

DateCell(dt) == Cell("date", <<>>, 0, dt, UnsetTime)

TimeCell(t) == Cell("time", <<>>, 0, UnsetDate, t)

\* an empty cell
Blank == StrCell(<<>>)

\* the truth value of a cell
Truthy(v) ==
    CASE v.type = "str" -> v.text # <<>>
      [] v.type = "int" -> v.number # 0
      [] OTHER -> TRUE

\* int() of a cell
IntValue(v) ==
    CASE v.type = "int" -> Return(v.number)
      [] v.type = "str" ->
           IF v.text # <<>> /\ \A i \in 1..Len(v.text) : IsDigit(v.text[i])
           THEN Return(IntOf(v.text))
           ELSE Raise("ValueError")
      [] OTHER -> Raise("TypeError")

\* a number in at least n digits
RECURSIVE Pad(_, _)
Pad(text, n) == IF Len(text) >= n THEN text ELSE Pad(<<"0">> \o text, n)

\* str() of a date: YYYY-MM-DD
StrOfDate(dt) ==
    Pad(StrOf(dt.year), 4) \o <<"-">> \o Pad(StrOf(dt.month), 2)
      \o <<"-">> \o Pad(StrOf(dt.day), 2)

\* str() of a time: HH:MM:SS
StrOfTime(t) ==
    Pad(StrOf(t.hour), 2) \o <<":">> \o Pad(StrOf(t.minute), 2)
      \o <<":">> \o Pad(StrOf(t.second), 2)

\* stringize(instr)
stringize(instr) ==
    CASE instr.type = "datetime" -> Return(StrOfDate(instr.date))
      [] instr.type = "date" -> Return(StrOfDate(instr.date))
      [] instr.type = "time" -> Return(StrOfTime(instr.time))
      [] instr.type = "str" -> Return(instr.text)
      [] OTHER -> Raise("TypeError")

\* ------------------------------------------------------------------------
\* spsreader.py
\* ------------------------------------------------------------------------

\* chr(ord('A') + k), for k from -1 on
ChrFromA ==
    <<"@", "A", "B", "C", "D", "E", "F", "G", "H", "I", "J", "K", "L", "M",
      "N", "O", "P", "Q", "R", "S", "T", "U", "V", "W", "X", "Y", "Z">>

RECURSIVE Power(_, _)
Power(b, n) == IF n = 0 THEN 1 ELSE b * Power(b, n - 1)

\* 1 + ord('Z') - ord('A')
Base == 26

\* the digit of jcolumn at position pos
Digit(jcolumn, pos) == (jcolumn % Power(Base, 1 + pos)) \div Power(Base, pos)

\* the letter of the digit of jcolumn at position pos
Letter(jcolumn, pos) ==
    IF pos = 0 THEN ChrFromA[Digit(jcolumn, pos) + 2]
    ELSE ChrFromA[Digit(jcolumn, pos) + 1]

\* the loop of get_cellname that names column jcolumn
RECURSIVE ColumnName(_, _, _)
ColumnName(jcolumn, pos, result) ==
    IF jcolumn - Digit(jcolumn, pos) * Power(Base, pos) = 0
    THEN <<Letter(jcolumn, pos)>> \o result
    ELSE ColumnName(jcolumn - Digit(jcolumn, pos) * Power(Base, pos), pos + 1,
                    <<Letter(jcolumn, pos)>> \o result)

\* the position of a header in a sheet: SpsReader._header[key]
HeaderIndex(sheet, key) ==
    (CHOOSE i \in 1..Len(sheet.header) : sheet.header[i] = key) - 1

\* SpsReader.__contains__
SpsReader_contains(sheet, key) ==
    \E i \in 1..Len(sheet.header) : sheet.header[i] = key

\* SpsReader.get_cellname(key) after the iterator returned the k-th row of
\* data: then _row is k
get_cellname(sheet, k, key) ==
    IF ~SpsReader_contains(sheet, key) THEN Raise("ValueError")
    ELSE Return(ColumnName(HeaderIndex(sheet, key), 0, <<>>)
                  \o StrOf(k + sheet.yoffset))

\* get_columnrow(cellname)
get_columnrow(cellname) ==
    IF ~CellAt(cellname, 1).ok THEN Raise("ValueError")
    ELSE Return([column |-> CellAt(cellname, 1).column,
                 row |-> IntOf(CellAt(cellname, 1).row)])

\* ------------------------------------------------------------------------
\* exmvariable.py and exmvalue.py
\* ------------------------------------------------------------------------

\* EXMVariable(grade, name, course, semester, exmdate, exmtime, setup,
\*             sheetname, column, row)
EXMVariable(grade, name, course, semester, exmdate, exmtime, setup, sheetname, column, row) ==
    [grade |-> grade, name |-> name, course |-> course, semester |-> semester,
     date |-> exmdate, time |-> exmtime, setup |-> setup,
     cellname |-> <<"$">> \o sheetname \o <<".">> \o column \o StrOf(row),
     date_uniconstraints |-> EXMConstraints,
     time_uniconstraints |-> EXMConstraints,
     date_biconstraints |-> EXMConstraints,
     time_biconstraints |-> EXMConstraints]

\* the loop of set_date_uniconstraints and set_time_uniconstraints: every
\* constraint is stored under the cellname of the variable
RECURSIVE set_uniconstraints(_, _, _, _)
set_uniconstraints(c, cellname, value, k) ==
    IF k > Len(value) THEN c
    ELSE set_uniconstraints(Constraints_setitem(c, cellname, <<value[k]>>),
                            cellname, value, k + 1)

\* the loop of set_date_biconstraints and set_time_biconstraints: every
\* constraint is stored under the variable it refers to
RECURSIVE set_biconstraints(_, _, _)
set_biconstraints(c, value, k) ==
    IF k > Len(value) THEN c
    ELSE set_biconstraints(Constraints_setitem(c, value[k].var, <<value[k]>>),
                           value, k + 1)

\* EXMVariable.__eq__ with another variable
EXMVariable_eq(var, other) == var.cellname = other.cellname

\* EXMVariable.__eq__ with a string
EXMVariable_eq_str(var, other) == var.cellname = other

\* EXMValue(exmdate, exmtime): the date cell and the time cell of a slot
EXMValue(exmdate, exmtime) ==
    [date |-> exmdate, time |-> exmtime,
     datetime |-> DateTime(exmdate.year, exmdate.month, exmdate.day,
                           exmtime.hour, exmtime.minute, exmtime.second),
     setup |-> 24]

\* EXMValue.set_setup
set_setup(value, setup) == [value EXCEPT !.setup = setup]

\* ------------------------------------------------------------------------
\* exmpoolvar.py
\* ------------------------------------------------------------------------

\* EXMPoolVar(): the list of variables and the counter of the iterator
EXMPoolVar == [vars |-> <<>>, idx |-> 0]

\* EXMPoolVar.__contains__(other), other a cellname
PoolVar_contains(pool, other) ==
    \E i \in 1..Len(pool.vars) : EXMVariable_eq_str(pool.vars[i], other)

\* EXMPoolVar.__len__
PoolVar_len(pool) == Len(pool.vars)

\* a variant of EXMPoolVar.__iadd__ that adds the list before the variables
\* of the pool
PoolVar_iadd_front(pool, value) == [pool EXCEPT !.vars = value \o @]

\* EXMPoolVar.__iadd__(value)
PoolVar_iadd(pool, value) == [pool EXCEPT !.vars = @ \o value]

\* EXMPoolVar.__next__: the next member and the pool with its counter moved,
\* or StopIteration and the pool with its counter back at the beginning
PoolVar_next(pool) ==
    IF pool.idx < Len(pool.vars)
    THEN [ok |-> TRUE, value |-> pool.vars[pool.idx + 1],
          pool |-> [pool EXCEPT !.idx = @ + 1]]
    ELSE [ok |-> FALSE, raised |-> "StopIteration",
          pool |-> [pool EXCEPT !.idx = 0]]

\* ------------------------------------------------------------------------
\* the builder of variables (exm.py)
\* ------------------------------------------------------------------------

DEFAULT_SETUP_TIME == 24

\* what LOGGER.error receives
Error(error, register, content) ==
    [error |-> error, register |-> register, content |-> content]

\* a local variable of a function: unbound until it is first assigned
Unbound == [bound |-> FALSE]

Bound(text) == [bound |-> TRUE, text |-> text]

\* the end of the body of the loop of get_variables: the variable is created
\* and its constraints are set
new_variable_build(newvar, dc, tc, exmdate, exmtime, logged) ==
    [ok |-> TRUE,
     value |->
        [newvar EXCEPT
           !.date_uniconstraints =
              set_uniconstraints(@, newvar.cellname, dc.uni_date, 1),
           !.date_biconstraints = set_biconstraints(@, dc.bi, 1),
           !.time_uniconstraints =
              set_uniconstraints(@, newvar.cellname, tc.uni_time, 1),
           !.time_biconstraints = set_biconstraints(@, tc.bi, 1)],
     exmdate |-> exmdate, exmtime |-> exmtime, logged |-> logged]

\* the body of the loop from the setup time on
new_variable_setup(sheet, column, row, irow, exmdate, exmtime, dc, tc, logged, setup) ==
    IF ~setup.ok
    THEN [ok |-> FALSE, raised |-> setup.raised, logged |-> logged]
    ELSE new_variable_build(
            EXMVariable(sheet.name, irow.Asignatura, irow.Curso,
                        irow.Cuatrimestre, UnsetDate, UnsetTime,
                        setup.value, sheet.name, column, row),
            dc, tc, exmdate, exmtime, logged)

\* the body of the loop from the check of the unit constraints on: dc and
\* tc are the constraints of the date and of the time
new_variable_check(sheet, column, row, irow, exmdate, exmtime, logged, dc, tc) ==
    IF ~tc.ok
    THEN [ok |-> FALSE, raised |-> tc.raised, logged |-> logged \o tc.logged]
    ELSE new_variable_setup(sheet, column, row, irow, exmdate, exmtime, dc, tc,
            logged
              \o (IF dc.uni_time # <<>>
                  THEN <<Error("ERROR_TIME_IN_DATE", column \o StrOf(row), <<>>)>>
                  ELSE <<>>)
              \o (IF tc.uni_date # <<>>
                  THEN <<Error("ERROR_DATE_IN_TIME", column \o StrOf(row), <<>>)>>
                  ELSE <<>>),
            IF SpsReader_contains(sheet, "Setup") /\ Truthy(irow.Setup)
            THEN IntValue(irow.Setup)
            ELSE Return(DEFAULT_SETUP_TIME))

\* the body of the loop from the constraints of the time on: dc is the
\* constraints of the date
new_variable_time(sheet, column, row, irow, exmdate, exmtime, logged, dc) ==
    IF ~dc.ok
    THEN [ok |-> FALSE, raised |-> dc.raised, logged |-> logged \o dc.logged]
    ELSE IF ~exmtime.bound
    THEN [ok |-> FALSE, raised |-> "UnboundLocalError", logged |-> logged]
    ELSE new_variable_check(sheet, column, row, irow, exmdate, exmtime, logged,
            dc, get_constraints(exmtime.text, sheet.name, column \o StrOf(row)))

\* the body of the loop from the constraints of the date on: exmdate and
\* exmtime are the locals after the two calls to stringize
new_variable_date(sheet, column, row, irow, exmdate, exmtime, logged) ==
    IF ~exmdate.bound
    THEN [ok |-> FALSE, raised |-> "UnboundLocalError", logged |-> logged]
    ELSE new_variable_time(sheet, column, row, irow, exmdate, exmtime, logged,
            get_constraints(exmdate.text, sheet.name, column \o StrOf(row)))

\* the body of the loop of get_variables for one accepted record, which is
\* also the body of the loop of get_variable for the record it looks for;
\* exmdate0 and exmtime0 are the locals exmdate and exmtime before it runs
new_variable(sheet, column, row, irow, exmdate0, exmtime0) ==
    new_variable_date(sheet, column, row, irow,
        IF stringize(irow.Fecha).ok
        THEN Bound(stringize(irow.Fecha).value) ELSE exmdate0,
        IF stringize(irow.Hora).ok
        THEN Bound(stringize(irow.Hora).value) ELSE exmtime0,
        (IF stringize(irow.Fecha).ok THEN <<>>
         ELSE <<Error("ERROR_UNKNOWN_TYPE_DATE",
                      <<"$">> \o sheet.name \o <<".">> \o column \o StrOf(row),
                      <<>>)>>)
          \o (IF stringize(irow.Hora).ok THEN <<>>
              ELSE <<Error("ERROR_UNKNOWN_TYPE_TIME",
                           <<"$">> \o sheet.name \o <<".">> \o column \o StrOf(row),
                           <<>>)>>))

\* spsreader.get_columnrow(master.get_cellname('Asignatura')) at the k-th
\* row of data
Location(sheet, k) ==
    IF ~get_cellname(sheet, k, "Asignatura").ok
    THEN get_cellname(sheet, k, "Asignatura")
    ELSE get_columnrow(get_cellname(sheet, k, "Asignatura").value)

\* the record of the k-th row is rejected by the selection criteria
Rejected(sheet, grade, course, semester, k) ==
    \/ (grade # <<>> /\ grade # sheet.name)
    \/ (course # 0 /\ course # sheet.rows[k].Curso)
    \/ (semester # 0 /\ semester # sheet.rows[k].Cuatrimestre)

RECURSIVE get_variables_loop(_, _, _, _, _, _, _, _, _)

\* the end of a turn of the loop of get_variables: r is the variable of the
\* k-th row
get_variables_append(sheet, grade, course, semester, k, exmvars, logged, r) ==
    IF ~r.ok
    THEN [ok |-> FALSE, raised |-> r.raised, logged |-> logged \o r.logged]
    ELSE get_variables_loop(sheet, grade, course, semester, k + 1,
                            Append(exmvars, r.value), r.exmdate, r.exmtime,
                            logged \o r.logged)

\* the loop of get_variables from the k-th row of data on
get_variables_loop(sheet, grade, course, semester, k, exmvars, exmdate, exmtime, logged) ==
    IF k > Len(sheet.rows)
    THEN [ok |-> TRUE, value |-> exmvars, logged |-> logged]
    ELSE IF Rejected(sheet, grade, course, semester, k)
    THEN get_variables_loop(sheet, grade, course, semester, k + 1,
                            exmvars, exmdate, exmtime, logged)
    ELSE IF ~Location(sheet, k).ok
    THEN [ok |-> FALSE, raised |-> Location(sheet, k).raised,
          logged |-> logged]
    ELSE get_variables_append(sheet, grade, course, semester, k, exmvars,
            logged,
            new_variable(sheet, Location(sheet, k).value.column,
                         Location(sheet, k).value.row, sheet.rows[k],
                         exmdate, exmtime))

\* get_variables(spreadsheet, sheetname, grade, course, semester, verbose):
\* no grade is the empty string, no course and no semester are 0
get_variables(sheet, grade, course, semester) ==
    get_variables_loop(sheet, grade, course, semester, 1,
                       <<>>, Unbound, Unbound, <<>>)

\* the loop of get_variable from the k-th row of data on
RECURSIVE get_variable_loop(_, _, _, _)
get_variable_loop(sheet, column, row, k) ==
    IF k > Len(sheet.rows)
    THEN [ok |-> FALSE, raised |-> "ValueError", logged |-> <<>>,
          message |-> Error("ERROR_UNKNOWN_REGISTER",
                            <<"$">> \o sheet.name \o <<".">> \o column \o StrOf(row),
                            <<>>)]
    ELSE IF ~Location(sheet, k).ok
    THEN [ok |-> FALSE, raised |-> Location(sheet, k).raised, logged |-> <<>>]
    ELSE IF \/ Location(sheet, k).value.column # column
            \/ Location(sheet, k).value.row # row
    THEN get_variable_loop(sheet, column, row, k + 1)
    ELSE new_variable(sheet, column, row, sheet.rows[k], Unbound, Unbound)

\* the sheets of a book with a name
SheetsNamed(book, sheetname) ==
    {i \in 1..Len(book) : book[i].name = sheetname}

\* a variant of get_variable that returns the variable of the first record
\* of the sheet when it finds no record at the location
get_variable_first(workbook, sheetname, column, row) ==
    IF SheetsNamed(workbook, sheetname) = {}
    THEN [ok |-> FALSE, raised |-> "ValueError", logged |-> <<>>]
    ELSE IF get_variable_loop(workbook[Min(SheetsNamed(workbook, sheetname))],
                              column, row, 1).ok
    THEN get_variable_loop(workbook[Min(SheetsNamed(workbook, sheetname))],
                           column, row, 1)
    ELSE get_variable_loop(workbook[Min(SheetsNamed(workbook, sheetname))],
                           <<"B">>, 2, 1)

\* get_variable(spreadsheet, sheetname, column, row, verbose): a sheet the
\* book does not hold cannot be opened
get_variable(book, sheetname, column, row) ==
    IF SheetsNamed(book, sheetname) = {}
    THEN [ok |-> FALSE, raised |-> "ValueError", logged |-> <<>>]
    ELSE get_variable_loop(book[Min(SheetsNamed(book, sheetname))],
                           column, row, 1)

\* the keys of a list that the pool does not hold
Missing(pool, keys) ==
    {k \in 1..Len(keys) : ~PoolVar_contains(pool, keys[k])}

\* the return of get_next_indirect at a key the pool does not hold
get_next_indirect_key(pool, ikey) ==
    IF ~RE_CELLNAME(ikey).ok
    THEN [ok |-> FALSE, raised |-> "AttributeError", pool |-> pool,
          logged |-> <<Error("ERROR_SYNTAX_ERROR_REGISTER", ikey, <<>>)>>]
    ELSE [ok |-> TRUE,
          value |-> <<RE_CELLNAME(ikey).sheet, RE_CELLNAME(ikey).column,
                      IntOf(RE_CELLNAME(ikey).row)>>,
          pool |-> pool, logged |-> <<>>]

RECURSIVE get_next_indirect(_)

\* the body of the loop of get_next_indirect: keys are the keys of the date
\* binary constraints of the variable the iterator of the pool returned
get_next_indirect_keys(pool, keys) ==
    IF Missing(pool, keys) = {} THEN get_next_indirect(pool)
    ELSE get_next_indirect_key(pool, keys[Min(Missing(pool, keys))])

\* get_next_indirect(poolvar): the location (sheet, column, row) of the
\* first key it finds missing, or None (the empty tuple), and the pool as
\* its iterator is left; the for loop goes on from where the counter of the
\* pool stands
get_next_indirect(poolvar) ==
    IF ~PoolVar_next(poolvar).ok
    THEN [ok |-> TRUE, value |-> <<>>, pool |-> PoolVar_next(poolvar).pool,
          logged |-> <<>>]
    ELSE get_next_indirect_keys(PoolVar_next(poolvar).pool,
            Constraints_keys(PoolVar_next(poolvar).value.date_biconstraints))

\* ------------------------------------------------------------------------
\* the constraints (exm.py)
\* ------------------------------------------------------------------------

\* unit date constraints: xi is the datetime of a value, cj the datetime of
\* a constraint; both are compared by their date()
uni_equal_date(xi, cj) == DateOf(xi) = DateOf(cj)

uni_not_equal_date(xi, cj) == DateOf(xi) # DateOf(cj)

uni_lt_date(xi, cj) == DateOf(xi) < DateOf(cj)

uni_le_date(xi, cj) == DateOf(xi) <= DateOf(cj)

uni_gt_date(xi, cj) == DateOf(xi) > DateOf(cj)

uni_ge_date(xi, cj) == DateOf(xi) >= DateOf(cj)

\* unit time constraints: xi is the datetime of a value, cj a time
uni_equal_time(xi, cj) == TimeOf(xi) = cj

uni_not_equal_time(xi, cj) == TimeOf(xi) # cj

uni_lt_time(xi, cj) == SecondsOf(TimeOf(xi)) < SecondsOf(cj)

uni_le_time(xi, cj) == SecondsOf(TimeOf(xi)) <= SecondsOf(cj)

uni_gt_time(xi, cj) == SecondsOf(TimeOf(xi)) > SecondsOf(cj)

uni_ge_time(xi, cj) == SecondsOf(TimeOf(xi)) >= SecondsOf(cj)

\* binary date constraints: xi and xj are the values given to two variables;
\* get_date() of a value is the date cell of its slot
bi_equal_date(xi, xj) == DateOf(xi.date) = DateOf(xj.date)

bi_not_equal_date(xi, xj) == DateOf(xi.date) # DateOf(xj.date)

bi_lt_date(xi, xj) == DateOf(xi.date) < DateOf(xj.date)

bi_le_date(xi, xj) == DateOf(xi.date) <= DateOf(xj.date)

bi_gt_date(xi, xj) == DateOf(xi.date) > DateOf(xj.date)

bi_ge_date(xi, xj) == DateOf(xi.date) >= DateOf(xj.date)

\* binary time constraints: get_time() of a value is the time cell of its slot
bi_equal_time(xi, xj) == xi.time = xj.time

bi_not_equal_time(xi, xj) == xi.time # xj.time

bi_lt_time(xi, xj) == SecondsOf(xi.time) < SecondsOf(xj.time)

bi_le_time(xi, xj) == SecondsOf(xi.time) <= SecondsOf(xj.time)

bi_gt_time(xi, xj) == SecondsOf(xi.time) > SecondsOf(xj.time)

bi_ge_time(xi, xj) == SecondsOf(xi.time) >= SecondsOf(xj.time)

\* the table of unit date constraints of uni_is_compatible
uni_date_dispatch(operator, xi, xj) ==
    CASE operator = "=" -> uni_equal_date(xi, xj)
      [] operator = "!=" -> uni_not_equal_date(xi, xj)
      [] operator = "<" -> uni_lt_date(xi, xj)
      [] operator = "<=" -> uni_le_date(xi, xj)
      [] operator = ">" -> uni_gt_date(xi, xj)
      [] operator = ">=" -> uni_ge_date(xi, xj)

\* the table of unit time constraints of uni_is_compatible
uni_time_dispatch(operator, xi, xj) ==
    CASE operator = "=" -> uni_equal_time(xi, xj)
      [] operator = "!=" -> uni_not_equal_time(xi, xj)
      [] operator = "<" -> uni_lt_time(xi, xj)
      [] operator = "<=" -> uni_le_time(xi, xj)
      [] operator = ">" -> uni_gt_time(xi, xj)
      [] operator = ">=" -> uni_ge_time(xi, xj)

\* a variant of bi_difftime with the setup time of the earliest value
bi_difftime_earliest(xi, xj) ==
    IF TotalSeconds(xi.datetime, xj.datetime) > 0
    THEN TotalSeconds(xi.datetime, xj.datetime) >= xj.setup * 3600
    ELSE TotalSeconds(xj.datetime, xi.datetime) >= xi.setup * 3600

\* bi_difftime(xi, xj): the time delta between two values is at least the
\* setup time, in hours, of the latest one
bi_difftime(xi, xj) ==
    IF TotalSeconds(xi.datetime, xj.datetime) > 0
    THEN TotalSeconds(xi.datetime, xj.datetime) >= xi.setup * 3600
    ELSE TotalSeconds(xj.datetime, xi.datetime) >= xj.setup * 3600

\* the predicate a constraint of the task names, on the values of its two
\* variables
Predicate(name, xi, xj) ==
    CASE name = "bi_difftime" -> bi_difftime(xi, xj)
      [] name = "bi_equal_date" -> bi_equal_date(xi, xj)
      [] name = "bi_not_equal_date" -> bi_not_equal_date(xi, xj)
      [] name = "bi_lt_date" -> bi_lt_date(xi, xj)
      [] name = "bi_le_date" -> bi_le_date(xi, xj)
      [] name = "bi_gt_date" -> bi_gt_date(xi, xj)
      [] name = "bi_ge_date" -> bi_ge_date(xi, xj)
      [] name = "bi_equal_time" -> bi_equal_time(xi, xj)
      [] name = "bi_not_equal_time" -> bi_not_equal_time(xi, xj)
      [] name = "bi_lt_time" -> bi_lt_time(xi, xj)
      [] name = "bi_le_time" -> bi_le_time(xi, xj)
      [] name = "bi_gt_time" -> bi_gt_time(xi, xj)
      [] name = "bi_ge_time" -> bi_ge_time(xi, xj)

\* the table of binary date constraints of main
bi_date_dispatch(operator) ==
    CASE operator = "=" -> "bi_equal_date"
      [] operator = "!=" -> "bi_not_equal_date"
      [] operator = "<" -> "bi_lt_date"
      [] operator = "<=" -> "bi_le_date"
      [] operator = ">" -> "bi_gt_date"
      [] operator = ">=" -> "bi_ge_date"

\* the table of binary time constraints of main
bi_time_dispatch(operator) ==
    CASE operator = "=" -> "bi_equal_time"
      [] operator = "!=" -> "bi_not_equal_time"
      [] operator = "<" -> "bi_lt_time"
      [] operator = "<=" -> "bi_le_time"
      [] operator = ">" -> "bi_gt_time"
      [] operator = ">=" -> "bi_ge_time"

\* every constraint of a set of unit constraints, key after key
RECURSIVE ConstraintsOf(_, _)
ConstraintsOf(c, k) ==
    IF k > Len(c) THEN <<>> ELSE c[k].list \o ConstraintsOf(c, k + 1)

\* a variant of uni_is_compatible that reads no unit time constraint
uni_is_compatible_dates(variable, value) ==
    \A k \in 1..Len(ConstraintsOf(variable.date_uniconstraints, 1)) :
        uni_date_dispatch(
           ConstraintsOf(variable.date_uniconstraints, 1)[k].operator,
           value.datetime,
           ConstraintsOf(variable.date_uniconstraints, 1)[k].const)

\* uni_is_compatible(variable, value)
uni_is_compatible(variable, value) ==
    /\ \A k \in 1..Len(ConstraintsOf(variable.date_uniconstraints, 1)) :
          uni_date_dispatch(
             ConstraintsOf(variable.date_uniconstraints, 1)[k].operator,
             value.datetime,
             ConstraintsOf(variable.date_uniconstraints, 1)[k].const)
    /\ \A k \in 1..Len(ConstraintsOf(variable.time_uniconstraints, 1)) :
          uni_time_dispatch(
             ConstraintsOf(variable.time_uniconstraints, 1)[k].operator,
             value.datetime,
             ConstraintsOf(variable.time_uniconstraints, 1)[k].const)

\* the slots of one row of the sheet of timeslots, from the n-th on
RECURSIVE SlotsOf(_, _)
SlotsOf(irow, nbslot) ==
    IF nbslot > Len(irow.slots) THEN <<>>
    ELSE (IF Truthy(irow.slots[nbslot])
          THEN <<EXMValue(irow.Fecha.date, irow.slots[nbslot].time)>>
          ELSE <<>>)
         \o SlotsOf(irow, nbslot + 1)

\* the loop of get_values from the k-th row on
RECURSIVE get_values_loop(_, _)
get_values_loop(rows, k) ==
    IF k > Len(rows) THEN <<>>
    ELSE SlotsOf(rows[k], 1) \o get_values_loop(rows, k + 1)

\* get_values(spreadsheet): the values of the sheet "Timeslots"
get_values(timeslots) == get_values_loop(timeslots, 1)

\* ------------------------------------------------------------------------
\* the CSP task (the constraint library, as main uses it)
\* ------------------------------------------------------------------------

\* constraint.Problem()
Problem == [variables |-> <<>>, constraints |-> <<>>]

\* a variant of addVariable that accepts an empty domain
addVariable_unchecked(task, variable, idomain) ==
    IF \E k \in 1..Len(task.variables) :
          task.variables[k].variable = variable.cellname
    THEN Raise("ValueError")
    ELSE Return([task EXCEPT !.variables =
                   Append(@, [variable |-> variable.cellname,
                              domain |-> idomain])])

\* Problem.addVariable(variable, domain): the library refuses a variable it
\* already holds and an empty domain
addVariable(task, variable, idomain) ==
    IF \E k \in 1..Len(task.variables) :
          task.variables[k].variable = variable.cellname
    THEN Raise("ValueError")
    ELSE IF idomain = <<>> THEN Raise("ValueError")
    ELSE Return([task EXCEPT !.variables =
                   Append(@, [variable |-> variable.cellname,
                              domain |-> idomain])])

\* a variant of Constraint over the pair in the opposite order
Constraint_swapped(func, ivariable, jvariable) ==
    [func |-> func, variables |-> <<jvariable.cellname, ivariable.cellname>>]

\* task.addConstraint(func, [ivariable, jvariable])
Constraint(func, ivariable, jvariable) ==
    [func |-> func, variables |-> <<ivariable.cellname, jvariable.cellname>>]

\* the position in the task of the variable with a cellname
VariableIndex(task, cellname) ==
    CHOOSE k \in 1..Len(task.variables) : task.variables[k].variable = cellname

\* the value an assignment gives the variable with a cellname
ValueOf(task, a, cellname) ==
    task.variables[VariableIndex(task, cellname)]
        .domain[a[VariableIndex(task, cellname)]]

\* an assignment gives every variable of the task the position of a value
\* of its domain; it is a solution when every constraint holds of the values
IsSolution(task, a) ==
    /\ \A k \in 1..Len(task.variables) : a[k] <= Len(task.variables[k].domain)
    /\ \A c \in 1..Len(task.constraints) :
          Predicate(task.constraints[c].func,
                    ValueOf(task, a, task.constraints[c].variables[1]),
                    ValueOf(task, a, task.constraints[c].variables[2]))

LongestDomain(task) ==
    Max({0} \cup {Len(task.variables[k].domain) : k \in 1..Len(task.variables)})

\* a variant of Solutions that reads no constraint
Solutions_unconstrained(task) ==
    IF task.variables = <<>> THEN {}
    ELSE {a \in [1..Len(task.variables) -> 1..LongestDomain(task)] :
            \A k \in 1..Len(task.variables) : a[k] <= Len(task.variables[k].domain)}

\* what Problem.getSolution() may return: any solution; the task without
\* variables has none
Solutions(task) ==
    IF task.variables = <<>> THEN {}
    ELSE {a \in [1..Len(task.variables) -> 1..LongestDomain(task)] :
            IsSolution(task, a)}

\* ------------------------------------------------------------------------
\* main (exm.py)
\* ------------------------------------------------------------------------

\* the name of the sheet of timeslots
Timeslots == <<"T", "i", "m", "e", "s", "l", "o", "t", "s">>

\* the values of the sheet of timeslots of a book
TimeslotsOf(workbook) ==
    (CHOOSE sheet \in {workbook[i] : i \in 1..Len(workbook)} :
        sheet.name = Timeslots).rows

\* the values of the domain that are compatible with a variable, each one
\* copied and given the setup time of the variable, from the k-th on
RECURSIVE idomain_loop(_, _, _)
idomain_loop(ivariable, values, k) ==
    IF k > Len(values) THEN <<>>
    ELSE (IF uni_is_compatible(ivariable, values[k])
          THEN <<set_setup(values[k], ivariable.setup)>>
          ELSE <<>>)
         \o idomain_loop(ivariable, values, k + 1)

\* the constraints main adds for the pair (ivariable, jvariable)
RECURSIVE bi_constraints_loop(_, _, _, _, _)
bi_constraints_loop(dispatch, list, ivariable, jvariable, k) ==
    IF k > Len(list) THEN <<>>
    ELSE <<Constraint(IF dispatch = "date"
                      THEN bi_date_dispatch(list[k].operator)
                      ELSE bi_time_dispatch(list[k].operator),
                      ivariable, jvariable)>>
         \o bi_constraints_loop(dispatch, list, ivariable, jvariable, k + 1)

\* a variant of SameGradeAndCourse that also asks for the same semester
SameGradeCourseAndSemester(ivariable, jvariable) ==
    /\ ivariable.grade = jvariable.grade
    /\ ivariable.course = jvariable.course
    /\ ivariable.semester = jvariable.semester

\* the condition of the first constraint: two exams of the same course
SameGradeAndCourse(ivariable, jvariable) ==
    /\ ivariable.grade = jvariable.grade
    /\ ivariable.course = jvariable.course

\* a variant of pair_constraints with the constraints the user gave only,
\* without the constraint of the setup time
pair_constraints_given(ivariable, jvariable) ==
    IF EXMVariable_eq(ivariable, jvariable) THEN <<>>
    ELSE (IF Constraints_contains(ivariable.date_biconstraints,
                                     jvariable.cellname)
             THEN bi_constraints_loop(
                    "date",
                    Constraints_getitem(ivariable.date_biconstraints,
                                        jvariable.cellname).value,
                    ivariable, jvariable, 1)
             ELSE <<>>)
         \o (IF Constraints_contains(ivariable.time_biconstraints,
                                     jvariable.cellname)
             THEN bi_constraints_loop(
                    "time",
                    Constraints_getitem(ivariable.time_biconstraints,
                                        jvariable.cellname).value,
                    ivariable, jvariable, 1)
             ELSE <<>>)

\* the constraints main adds for the pair (ivariable, jvariable), jvariable
\* any variable of the pool
pair_constraints(ivariable, jvariable) ==
    IF EXMVariable_eq(ivariable, jvariable) THEN <<>>
    ELSE (IF SameGradeAndCourse(ivariable, jvariable)
          THEN <<Constraint("bi_difftime", ivariable, jvariable)>>
          ELSE <<>>)
         \o (IF Constraints_contains(ivariable.date_biconstraints,
                                     jvariable.cellname)
             THEN bi_constraints_loop(
                    "date",
                    Constraints_getitem(ivariable.date_biconstraints,
                                        jvariable.cellname).value,
                    ivariable, jvariable, 1)
             ELSE <<>>)
         \o (IF Constraints_contains(ivariable.time_biconstraints,
                                     jvariable.cellname)
             THEN bi_constraints_loop(
                    "time",
                    Constraints_getitem(ivariable.time_biconstraints,
                                        jvariable.cellname).value,
                    ivariable, jvariable, 1)
             ELSE <<>>)

\* the inner loop of the constraints of main, from the j-th variable on
RECURSIVE inner_constraints_loop(_, _, _)
inner_constraints_loop(vars, ivariable, j) ==
    IF j > Len(vars) THEN <<>>
    ELSE pair_constraints(ivariable, vars[j])
         \o inner_constraints_loop(vars, ivariable, j + 1)

\* a variant of set_solution that gives every variable the value of the
\* first variable of the task
set_solution_first(vars, task, a) ==
    [i \in 1..Len(vars) |->
        [vars[i] EXCEPT
           !.date = task.variables[1].domain[a[1]].datetime,
           !.time = TimeOf(task.variables[1].domain[a[1]].datetime)]]

\* the variables of the pool with the date and time of a solution
set_solution(vars, task, a) ==
    [i \in 1..Len(vars) |->
        IF \E k \in 1..Len(task.variables) :
              task.variables[k].variable = vars[i].cellname
        THEN [vars[i] EXCEPT
                !.date = ValueOf(task, a, vars[i].cellname).datetime,
                !.time = TimeOf(ValueOf(task, a, vars[i].cellname).datetime)]
        ELSE vars[i]]

\* ------------------------------------------------------------------------
\* the spreadsheets of the model
\* ------------------------------------------------------------------------

\* the rows of data the sheet G and the sheet E hold
NumRowsG == 2

NumRowsE == 1

\* the most variables of a pool the resolver still adds to: a row that
\* refers to itself under another spelling is loaded again without end
MaxPool == 4

\* a row of a sheet of exams
Row(curso, cuatrimestre, fecha, hora, setup) ==
    [Asignatura |-> "exam", Curso |-> curso, Cuatrimestre |-> cuatrimestre,
     Fecha |-> fecha, Hora |-> hora, Setup |-> setup]

\* the rows a sheet G may hold: plain rows, rows whose cells refer to other
\* rows, rows with unit constraints, rows with errors and a row whose date
\* is a number
RowsOfG ==
    { Row(1, 1, Blank, Blank, Blank),
      Row(2, 1, Blank, Blank, IntCell(48)),
      Row(1, 2, StrCell(<<"<", "B", "3">>), Blank, Blank),
      Row(1, 1, StrCell(<<"<", "B", "3", ",", ">", "$", "E", ".", "B", "2">>), Blank, Blank),
      Row(1, 2, StrCell(<<">", "=", "$", "G", ".", "B", "2", ",", "<", "$", "G", ".", "B", "2">>), StrCell(<<"=", "B", "3">>), Blank),
      Row(1, 1, StrCell(<<"=", "2", "0", "9", "9", "-", "0", "1", "-", "0", "1">>), Blank, Blank),
      Row(1, 1, StrCell(<<"9", ":", "0", "0">>), Blank, Blank),
      Row(1, 1, StrCell(<<"<", "B", "3", ",", "#">>), Blank, Blank),
      Row(1, 1, StrCell(<<"<", "B", "0", "3">>), Blank, Blank),
      Row(1, 1, IntCell(5), Blank, Blank),
      Row(1, 1, StrCell(<<">", "=", "2", "0", "2", "4", "-", "0", "5", "-", "0", "2">>), StrCell(<<"<", "9", ":", "0", "0">>), IntCell(0)) }

\* the rows a sheet E may hold
RowsOfE ==
    { Row(1, 1, Blank, Blank, Blank),
      Row(2, 1, StrCell(<<"<", "B", "3">>), Blank, Blank),
      Row(2, 2, DateTimeCell(DateTime(2024, 5, 2, 0, 0, 0)),
          StrCell(<<"!", "=", "$", "G", ".", "B", "2">>), Blank) }

SheetG(rows) ==
    [name |-> <<"G">>,
     header |-> <<"Curso", "Asignatura", "Cuatrimestre", "Fecha", "Hora", "Setup">>,
     yoffset |-> 1, rows |-> rows]

SheetE(rows) ==
    [name |-> <<"E">>,
     header |-> <<"Curso", "Asignatura", "Cuatrimestre", "Fecha", "Hora">>,
     yoffset |-> 1, rows |-> rows]

\* a row of the sheet of timeslots: a date and its slots
Slots(fecha, slots) == [Fecha |-> DateTimeCell(fecha), slots |-> slots]

SheetTimeslots ==
    [name |-> Timeslots,
     header |-> <<"Fecha", "Slot #1", "Slot #2">>,
     yoffset |-> 1,
     rows |-> << Slots(DateTime(2024, 5, 1, 0, 0, 0),
                       <<TimeCell(Time(9, 0, 0)), Blank>>),
                 Slots(DateTime(2024, 5, 2, 0, 0, 0),
                       <<TimeCell(Time(8, 59, 0)), TimeCell(Time(9, 0, 0))>>) >>]

Books ==
    { <<SheetG(g), SheetTimeslots, SheetE(e)>> :
         g \in [1..NumRowsG -> RowsOfG], e \in [1..NumRowsE -> RowsOfE] }

\* the arguments of the command line: no grade is the empty string, no
\* course and no semester are 0
Params ==
    { [grade |-> <<>>, course |-> 0, semester |-> 0, load_indirects |-> TRUE, ical |-> TRUE],
      [grade |-> <<>>, course |-> 1, semester |-> 0, load_indirects |-> TRUE, ical |-> FALSE],
      [grade |-> <<>>, course |-> 1, semester |-> 0, load_indirects |-> FALSE, ical |-> TRUE],
      [grade |-> <<"G">>, course |-> 0, semester |-> 1, load_indirects |-> TRUE, ical |-> FALSE] }

\* ------------------------------------------------------------------------
\* the run of main
\* ------------------------------------------------------------------------

VARIABLES
    book,       \* the master spreadsheet: its sheets, in order
    params,     \* the arguments of the command line
    pc,         \* where main stands: "load", "indirects", "values",
                \* "domains", "constraints", "done", or "halt" once an
                \* exception or sys.exit() ended the run
    isheet,     \* the sheet the loop over the sheets stands at
    poolvar,    \* the pool of variables and the counter of its iterator
    indirect,   \* the result of the last get_next_indirect
    domain,     \* the values of the timeslots
    task,       \* the CSP task
    ivariable,  \* the variable the outer loop of the constraints stands at
    solution,   \* the solution of the task, or the empty tuple
    log,        \* what LOGGER.error received
    raised,     \* the exception that ended the run
    written,    \* the files written
    fn,         \* the function a specification of a single function calls
    args,       \* its arguments
    ret         \* its result

vars == <<book, params, pc, isheet, poolvar, indirect, domain, task,
          ivariable, solution, log, raised, written, fn, args, ret>>

run == <<book, params, pc, isheet, poolvar, indirect, domain, task,
         ivariable, solution, log, raised, written>>

Init ==
    /\ book \in Books
    /\ params \in Params
    /\ pc = "load"
    /\ isheet = 1
    /\ poolvar = EXMPoolVar
    /\ indirect = <<>>
    /\ domain = <<>>
    /\ task = Problem
    /\ ivariable = 1
    /\ solution = <<>>
    /\ log = <<>>
    /\ raised = ""
    /\ written = {}
    /\ fn = "main"
    /\ args = <<>>
    /\ ret = <<>>

\* an exception or sys.exit() ends the run
Halt(exception, logged) ==
    /\ pc' = "halt"
    /\ raised' = exception
    /\ log' = log \o logged

\* one turn of the loop over the sheets: the sheet of timeslots is skipped,
\* the variables of any other sheet are added to the pool
LoadSheet ==
    /\ pc = "load"
    /\ isheet <= Len(book)
    /\ IF book[isheet].name = Timeslots
       THEN /\ isheet' = isheet + 1
            /\ UNCHANGED <<pc, poolvar, log, raised>>
       ELSE \E r \in {get_variables(book[isheet], params.grade,
                                     params.course, params.semester)} :
               IF r.ok
               THEN /\ poolvar' = PoolVar_iadd(poolvar, r.value)
                    /\ log' = log \o r.logged
                    /\ isheet' = isheet + 1
                    /\ UNCHANGED <<pc, raised>>
               ELSE /\ Halt(r.raised, r.logged)
                    /\ UNCHANGED <<isheet, poolvar>>
    /\ UNCHANGED <<book, params, indirect, domain, task, ivariable, solution,
                   written, fn, args, ret>>

\* after the sheets: the first get_next_indirect, if the user asked to load
\* the indirect variables
FirstIndirect ==
    /\ pc = "load"
    /\ isheet > Len(book)
    /\ IF ~params.load_indirects
       THEN /\ pc' = "values"
            /\ UNCHANGED <<poolvar, indirect, log, raised>>
       ELSE \E r \in {get_next_indirect(poolvar)} :
               IF r.ok
               THEN /\ pc' = "indirects"
                    /\ indirect' = r.value
                    /\ poolvar' = r.pool
                    /\ UNCHANGED <<log, raised>>
               ELSE /\ Halt(r.raised, r.logged)
                    /\ poolvar' = r.pool
                    /\ UNCHANGED indirect
    /\ UNCHANGED <<book, params, isheet, domain, task, ivariable, solution,
                   written, fn, args, ret>>

\* one turn of the loop over the indirect variables: the variable found
\* missing is read and added to the pool, and the pool is checked again
LoadIndirect ==
    /\ pc = "indirects"
    /\ indirect # <<>>
    /\ Len(poolvar.vars) < MaxPool
    /\ \E v \in {get_variable(book, indirect[1], indirect[2], indirect[3])} :
           IF ~v.ok
           THEN /\ Halt(v.raised, v.logged)
                /\ UNCHANGED <<poolvar, indirect>>
           ELSE \E r \in {get_next_indirect(PoolVar_iadd(poolvar, <<v.value>>))} :
                   IF r.ok
                   THEN /\ indirect' = r.value
                        /\ poolvar' = r.pool
                        /\ log' = log \o v.logged
                        /\ UNCHANGED <<pc, raised>>
                   ELSE /\ Halt(r.raised, v.logged \o r.logged)
                        /\ poolvar' = r.pool
                        /\ UNCHANGED indirect
    /\ UNCHANGED <<book, params, isheet, domain, task, ivariable, solution,
                   written, fn, args, ret>>

\* the CSP task is created and the values of the timeslots are read
GetValues ==
    /\ IF pc = "indirects" THEN indirect = <<>> ELSE pc = "values"
    /\ pc' = "domains"
    /\ task' = Problem
    /\ domain' = get_values(TimeslotsOf(book))
    /\ UNCHANGED <<book, params, isheet, poolvar, indirect, ivariable,
                   solution, log, raised, written, fn, args, ret>>

\* one turn of the loop over the pool that gives the task its variables:
\* the domain of the next variable of the pool is computed and the variable
\* is added to the task; after the last variable the loop ends
AddVariable ==
    /\ pc = "domains"
    /\ poolvar' = PoolVar_next(poolvar).pool
    /\ IF ~PoolVar_next(poolvar).ok
       THEN /\ pc' = "constraints"
            /\ UNCHANGED <<task, log, raised>>
       ELSE \E idomain \in {idomain_loop(PoolVar_next(poolvar).value, domain, 1)} :
            \E logged \in {IF idomain = <<>>
                            THEN <<Error("ERROR_EMPTY_DOMAIN",
                                         PoolVar_next(poolvar).value.cellname,
                                         <<>>)>>
                            ELSE <<>>} :
            \E t \in {addVariable(task, PoolVar_next(poolvar).value, idomain)} :
               IF t.ok
               THEN /\ task' = t.value
                    /\ log' = log \o logged
                    /\ UNCHANGED <<pc, raised>>
               ELSE /\ Halt(t.raised, logged)
                    /\ UNCHANGED task
    /\ UNCHANGED <<book, params, isheet, indirect, domain, ivariable,
                   solution, written, fn, args, ret>>

\* one turn of the outer loop of the constraints: the constraints of a
\* variable of the pool with every other variable
AddConstraints ==
    /\ pc = "constraints"
    /\ ivariable <= Len(poolvar.vars)
    /\ task' = [task EXCEPT !.constraints =
                  @ \o inner_constraints_loop(poolvar.vars,
                                              poolvar.vars[ivariable], 1)]
    /\ ivariable' = ivariable + 1
    /\ UNCHANGED <<book, params, pc, isheet, poolvar, indirect, domain,
                   solution, log, raised, written, fn, args, ret>>

\* the files main writes once a solution is found
Outputs == IF params.ical THEN {"spreadsheet", "ical"} ELSE {"spreadsheet"}

\* the task is solved: without a solution an error is shown; with one, the
\* variables take its dates and times and the files are written
Solve ==
    /\ pc = "constraints"
    /\ ivariable > Len(poolvar.vars)
    /\ pc' = "done"
    /\ IF Solutions(task) = {}
       THEN /\ log' = Append(log, Error("ERROR_SOLUTION_NOT_FOUND", <<>>, <<>>))
            /\ UNCHANGED <<poolvar, solution, written>>
       ELSE \E a \in Solutions(task) :
               /\ solution' = a
               /\ poolvar' = [poolvar EXCEPT
                                !.vars = set_solution(poolvar.vars, task, a)]
               /\ written' = Outputs
               /\ UNCHANGED log
    /\ UNCHANGED <<book, params, isheet, indirect, domain, task, ivariable,
                   raised, fn, args, ret>>

Next ==
    \/ LoadSheet
    \/ FirstIndirect
    \/ LoadIndirect
    \/ GetValues
    \/ AddVariable
    \/ AddConstraints
    \/ Solve

Spec == Init /\ [][Next]_vars

\* ------------------------------------------------------------------------
\* the resolver of references
\* ------------------------------------------------------------------------

\* the resolver ran and finished without error: its loop ended with
\* get_next_indirect returning None
ResolverFinished ==
    /\ params.load_indirects
    /\ \/ pc = "indirects" /\ indirect = <<>>
       \/ pc \in {"domains", "constraints", "done"}

\* every key of a set of constraints is the cellname of a variable of the pool
KeysInPool(c) ==
    \A k \in 1..Len(c) : PoolVar_contains(poolvar, c[k].key)

\* C1: with the resolution of references enabled, once the loop of the
\* resolver has finished without error, every key of the binary date
\* constraints of every variable of the pool is the cellname of a variable
\* of the pool, also when one variable refers to two keys the pool lacks
DateReferencesResolved ==
    ResolverFinished =>
        \A i \in 1..Len(poolvar.vars) :
            KeysInPool(poolvar.vars[i].date_biconstraints)

\* C2: with the resolution of references enabled, once the loop of the
\* resolver has finished without error, every key of the binary time
\* constraints of every variable of the pool is the cellname of a variable
\* of the pool
TimeReferencesResolved ==
    ResolverFinished =>
        \A i \in 1..Len(poolvar.vars) :
            KeysInPool(poolvar.vars[i].time_biconstraints)

\* some variable of the pool has a binary constraint on a key that is not
\* the cellname of any variable of the pool
Unresolved ==
    \E i \in 1..Len(poolvar.vars) :
        \/ ~KeysInPool(poolvar.vars[i].date_biconstraints)
        \/ ~KeysInPool(poolvar.vars[i].time_biconstraints)

\* C3: when the constraints are about to be created and some variable of
\* the pool has a binary constraint whose key is not in the pool, the run
\* aborts: the task is never solved, no solution is found and no file is
\* written
UnresolvedIsFatal ==
    (Unresolved /\ pc \in {"constraints", "done"}) =>
        /\ pc # "done"
        /\ solution = <<>>
        /\ written = {}

\* the resolver loaded a variable, found nothing more to load and left a
\* variable of the pool with a binary date constraint on a key the pool lacks
DateReferenceLeftOut ==
    /\ ResolverFinished
    /\ \E i \in 1..Len(poolvar.vars) :
          /\ Len(poolvar.vars[i].date_biconstraints) >= 2
          /\ PoolVar_contains(poolvar, poolvar.vars[i].date_biconstraints[1].key)
          /\ ~PoolVar_contains(poolvar, poolvar.vars[i].date_biconstraints[2].key)

\* the resolver found nothing to load and left a variable of the pool with
\* a binary time constraint on a key the pool lacks
TimeReferenceLeftOut ==
    /\ ResolverFinished
    /\ \E i \in 1..Len(poolvar.vars) :
          ~KeysInPool(poolvar.vars[i].time_biconstraints)

\* the task was solved and the files were written while a variable of the
\* pool has a binary constraint on a key the pool lacks
SolvedUnresolved ==
    /\ Unresolved
    /\ pc = "done"
    /\ solution # <<>>
    /\ written # {}

\* ------------------------------------------------------------------------
\* the errors of the run
\* ------------------------------------------------------------------------

\* LOGGER.error received an error of a kind
Logged(error) == \E k \in 1..Len(log) : log[k].error = error

\* the variable the loop of the domains is about to take from the pool has
\* no value of the domain compatible with its unit constraints
EmptyDomainNext ==
    /\ pc = "domains"
    /\ PoolVar_next(poolvar).ok
    /\ idomain_loop(PoolVar_next(poolvar).value, domain, 1) = <<>>

\* C4: when no value is compatible with the unit constraints of a variable
\* of the pool, the run reports the cellname of the variable and stops
\* there: the variable is not added to the task, no later variable is
\* filtered, no constraint is created and the task is never solved (no step
\* leaves a run that was ended)
EmptyDomainAborts ==
    [][/\ pc # "halt"
       /\ EmptyDomainNext =>
            /\ pc' = "halt"
            /\ raised' = "ValueError"
            /\ log' = Append(log, Error("ERROR_EMPTY_DOMAIN",
                                        PoolVar_next(poolvar).value.cellname,
                                        <<>>))
            /\ task' = task
            /\ task.constraints = <<>>
            /\ solution' = <<>>
            /\ written' = {}
       /\ \A k \in 1..Len(task'.variables) :
             task'.variables[k].domain # <<>>]_vars

\* the run was ended at a variable with an empty domain, after a variable
\* was added to the task and before the last variable of the pool
EmptyDomainAborted ==
    /\ pc = "halt"
    /\ raised = "ValueError"
    /\ Logged("ERROR_EMPTY_DOMAIN")
    /\ Len(task.variables) >= 1
    /\ poolvar.idx < Len(poolvar.vars)
    /\ task.constraints = <<>>

\* the row of the book a cellname names
RowOf(cellname) ==
    book[Min(SheetsNamed(book, RE_CELLNAME(cellname).sheet))]
        .rows[IntOf(RE_CELLNAME(cellname).row) - 1]

\* the fragments of the text of a cell
FragmentsOf(cell) ==
    IF stringize(cell).ok /\ stringize(cell).value # <<>>
    THEN Split(stringize(cell).value)
    ELSE <<>>

\* a row whose date holds a fragment read as a unit time constraint, or
\* whose time holds a fragment read as a unit date constraint
Misplaced(irow) ==
    \/ \E k \in 1..Len(FragmentsOf(irow.Fecha)) :
          /\ ~IsBlank(FragmentsOf(irow.Fecha)[k])
          /\ ~get_uni_date_constraint(FragmentsOf(irow.Fecha)[k]).ok
          /\ get_uni_time_constraint(FragmentsOf(irow.Fecha)[k]).ok
    \/ \E k \in 1..Len(FragmentsOf(irow.Hora)) :
          /\ ~IsBlank(FragmentsOf(irow.Hora)[k])
          /\ get_uni_date_constraint(FragmentsOf(irow.Hora)[k]).ok

\* C5: a row whose date holds a unit time constraint, or whose time holds a
\* unit date constraint, is fatal: the run halts and no variable is created
\* for the row or added to the pool
MisplacedIsFatal ==
    /\ \A i \in 1..Len(poolvar.vars) : ~Misplaced(RowOf(poolvar.vars[i].cellname))
    /\ (Logged("ERROR_TIME_IN_DATE") \/ Logged("ERROR_DATE_IN_TIME")) =>
          pc = "halt"

\* the error of a misplaced constraint was logged, the variable of the row
\* is in the pool and the run went on until the files were written
MisplacedBuilt ==
    /\ Logged("ERROR_TIME_IN_DATE")
    /\ \E i \in 1..Len(poolvar.vars) : Misplaced(RowOf(poolvar.vars[i].cellname))
    /\ pc = "done"
    /\ written # {}

\* a fragment that is none of a unit date constraint, a unit time
\* constraint and a binary constraint
NoPattern(iconstraint, sheetname) ==
    /\ ~IsBlank(iconstraint)
    /\ ~get_uni_date_constraint(iconstraint).ok
    /\ ~get_uni_time_constraint(iconstraint).ok
    /\ ~get_biconstraint(iconstraint, sheetname).ok

\* a cell with a fragment of no pattern
Unparseable(cell, sheetname) ==
    \E k \in 1..Len(FragmentsOf(cell)) :
        NoPattern(FragmentsOf(cell)[k], sheetname)

\* the sheets of exams of the book
Exams == {i \in 1..Len(book) : book[i].name # Timeslots}

\* C6: a cell with a fragment of no pattern halts the run: for every row of
\* the sheet about to be read, get_constraints returns no list of
\* constraints for such a cell, also when other fragments of the cell are
\* constraints, and no variable is created from the row
UnparseableHalts ==
    /\ \A i \in Exams \cap (IF pc = "load" THEN {isheet} ELSE {}) :
       \A k \in 1..Len(book[i].rows) :
          /\ Unparseable(book[i].rows[k].Fecha, book[i].name) =>
                /\ ~get_constraints(stringize(book[i].rows[k].Fecha).value,
                                    book[i].name, <<"B">> \o StrOf(k + 1)).ok
                /\ get_constraints(stringize(book[i].rows[k].Fecha).value,
                                   book[i].name, <<"B">> \o StrOf(k + 1)).raised
                     = "SystemExit"
          /\ Unparseable(book[i].rows[k].Hora, book[i].name) =>
                /\ ~get_constraints(stringize(book[i].rows[k].Hora).value,
                                    book[i].name, <<"B">> \o StrOf(k + 1)).ok
                /\ get_constraints(stringize(book[i].rows[k].Hora).value,
                                   book[i].name, <<"B">> \o StrOf(k + 1)).raised
                     = "SystemExit"
    /\ \A i \in 1..Len(poolvar.vars) :
          /\ ~Unparseable(RowOf(poolvar.vars[i].cellname).Fecha,
                          poolvar.vars[i].grade)
          /\ ~Unparseable(RowOf(poolvar.vars[i].cellname).Hora,
                          poolvar.vars[i].grade)
    /\ Logged("ERROR_CONSTRAINT") => (pc = "halt" /\ raised = "SystemExit")

\* the run was halted at a cell whose first fragment is a constraint and
\* whose second fragment has no pattern, with no variable of the row in the
\* pool
UnparseableHalted ==
    /\ pc = "halt"
    /\ raised = "SystemExit"
    /\ Logged("ERROR_CONSTRAINT")
    /\ \E i \in Exams : \E k \in 1..Len(book[i].rows) :
          /\ Len(FragmentsOf(book[i].rows[k].Fecha)) >= 2
          /\ get_biconstraint(FragmentsOf(book[i].rows[k].Fecha)[1],
                              book[i].name).ok
          /\ NoPattern(FragmentsOf(book[i].rows[k].Fecha)[2], book[i].name)
          /\ ~PoolVar_contains(poolvar,
                <<"$">> \o book[i].name \o <<".", "B">> \o StrOf(k + 1))

\* ------------------------------------------------------------------------
\* the constraints of the task
\* ------------------------------------------------------------------------

\* every constraint of the task was created
AssemblyDone ==
    \/ pc = "constraints" /\ ivariable > Len(poolvar.vars)
    \/ pc = "done"

\* the constraints of the task with a predicate over an ordered pair
Added(func, icell, jcell) ==
    Cardinality({c \in 1..Len(task.constraints) :
                    /\ task.constraints[c].func = func
                    /\ task.constraints[c].variables = <<icell, jcell>>})

\* the constraints with an operator that a set of binary constraints stores
\* under a key
Stored(c, key, operator) ==
    Cardinality({e \in UNION {{<<k, n>> : n \in 1..Len(c[k].list)} :
                               k \in 1..Len(c)} :
                    /\ c[e[1]].key = key
                    /\ c[e[1]].list[e[2]].operator = operator})

Operators == {"=", "!=", "<", "<=", ">", ">="}

\* a op b
Compare(operator, a, b) ==
    CASE operator = "=" -> a = b
      [] operator = "!=" -> a # b
      [] operator = "<" -> a < b
      [] operator = "<=" -> a <= b
      [] operator = ">" -> a > b
      [] operator = ">=" -> a >= b

\* C9: for every ordered pair (i, j) of distinct variables of the pool and
\* every operator, the task holds one binary date predicate of the operator
\* over (i, j) for each binary date constraint with the operator that i
\* stores under the cellname of j, and none when i stores none; the same for
\* the binary time constraints; the predicate of an operator compares the
\* date (the time) of the value of i with that of the value of j
BinaryConstraintsBound ==
    AssemblyDone =>
        \A i, j \in 1..Len(poolvar.vars) : \A operator \in Operators :
            poolvar.vars[i].cellname # poolvar.vars[j].cellname =>
                /\ Added(bi_date_dispatch(operator), poolvar.vars[i].cellname,
                         poolvar.vars[j].cellname)
                     = Stored(poolvar.vars[i].date_biconstraints,
                              poolvar.vars[j].cellname, operator)
                /\ Added(bi_time_dispatch(operator), poolvar.vars[i].cellname,
                         poolvar.vars[j].cellname)
                     = Stored(poolvar.vars[i].time_biconstraints,
                              poolvar.vars[j].cellname, operator)
                /\ \A xi, xj \in 1..Len(domain) :
                      /\ Predicate(bi_date_dispatch(operator),
                                   domain[xi], domain[xj])
                           = Compare(operator, DateOf(domain[xi].date),
                                     DateOf(domain[xj].date))
                      /\ Predicate(bi_time_dispatch(operator),
                                   domain[xi], domain[xj])
                           = Compare(operator, SecondsOf(domain[xi].time),
                                     SecondsOf(domain[xj].time))

\* the task holds the two date predicates of a variable that stores two
\* date constraints under the cellname of another, and the time predicate
\* of a variable that stores a time constraint under the cellname of another
BinaryConstraintsStored ==
    /\ AssemblyDone
    /\ \E i, j \in 1..Len(poolvar.vars) :
          /\ i # j
          /\ Stored(poolvar.vars[i].date_biconstraints,
                    poolvar.vars[j].cellname, ">=") = 1
          /\ Stored(poolvar.vars[i].date_biconstraints,
                    poolvar.vars[j].cellname, "<") = 1
          /\ Added("bi_ge_date", poolvar.vars[i].cellname,
                   poolvar.vars[j].cellname) = 1
          /\ Added("bi_lt_date", poolvar.vars[i].cellname,
                   poolvar.vars[j].cellname) = 1
          /\ Added("bi_lt_date", poolvar.vars[j].cellname,
                   poolvar.vars[i].cellname) = 0
    /\ \E i, j \in 1..Len(poolvar.vars) :
          /\ i # j
          /\ Added("bi_equal_time", poolvar.vars[i].cellname,
                   poolvar.vars[j].cellname) = 1

\* C10: the task holds the predicate of the setup time over a pair of
\* distinct variables of the pool if and only if they have the same grade
\* and the same course, whatever their semesters
SetupTimeBound ==
    AssemblyDone =>
        \A i, j \in 1..Len(poolvar.vars) :
            poolvar.vars[i].cellname # poolvar.vars[j].cellname =>
                Added("bi_difftime", poolvar.vars[i].cellname,
                      poolvar.vars[j].cellname)
                  = IF /\ poolvar.vars[i].grade = poolvar.vars[j].grade
                       /\ poolvar.vars[i].course = poolvar.vars[j].course
                    THEN 1 ELSE 0

\* the pool holds two variables of the same grade and course and of
\* different semesters, bound by the predicate of the setup time, and two
\* variables of the same course and of different grades, not bound by it
SetupTimeAcrossSemesters ==
    /\ AssemblyDone
    /\ \E i, j \in 1..Len(poolvar.vars) :
          /\ poolvar.vars[i].grade = poolvar.vars[j].grade
          /\ poolvar.vars[i].course = poolvar.vars[j].course
          /\ poolvar.vars[i].semester # poolvar.vars[j].semester
          /\ Added("bi_difftime", poolvar.vars[i].cellname,
                   poolvar.vars[j].cellname) = 1
    /\ \E i, j \in 1..Len(poolvar.vars) :
          /\ poolvar.vars[i].grade # poolvar.vars[j].grade
          /\ poolvar.vars[i].course = poolvar.vars[j].course
          /\ Added("bi_difftime", poolvar.vars[i].cellname,
                   poolvar.vars[j].cellname) = 0

\* ------------------------------------------------------------------------
\* bi_difftime, called on its own
\* ------------------------------------------------------------------------

\* the variables of the run of main while a function is called on its own
Idle ==
    /\ book = <<>>
    /\ params = [grade |-> <<>>, course |-> 0, semester |-> 0,
                 load_indirects |-> FALSE, ical |-> FALSE]
    /\ isheet = 1
    /\ poolvar = EXMPoolVar
    /\ indirect = <<>>
    /\ domain = <<>>
    /\ task = Problem
    /\ ivariable = 1
    /\ solution = <<>>
    /\ log = <<>>
    /\ raised = ""
    /\ written = {}

\* the setup times, in hours, of the values bi_difftime is called with
SetupTimes == {1, 24, 25, 48}

\* the values bi_difftime is called with: the values of the timeslots, each
\* with a setup time
ValuesWithSetup ==
    {set_setup(get_values(SheetTimeslots.rows)[k], setup) :
        k \in 1..Len(get_values(SheetTimeslots.rows)), setup \in SetupTimes}

InitDifftime ==
    /\ Idle
    /\ pc = "call"
    /\ fn = "bi_difftime"
    /\ args \in ValuesWithSetup \X ValuesWithSetup
    /\ ret = FALSE

\* the solver evaluates bi_difftime on the values of two variables
Difftime ==
    /\ pc = "call"
    /\ fn = "bi_difftime"
    /\ pc' = "return"
    /\ ret' = bi_difftime(args[1], args[2])
    /\ UNCHANGED <<book, params, isheet, poolvar, indirect, domain, task,
                   ivariable, solution, log, raised, written, fn, args>>

SpecDifftime == InitDifftime /\ [][Difftime]_vars

\* the minutes from the first of January of 2024 to a value of the timeslots
MinutesOf(value) ==
    (DateOf(value.datetime) - ToOrdinal(2024, 1, 1)) * 1440
      + value.datetime.hour * 60 + value.datetime.minute

\* C8: bi_difftime holds of two values if and only if the time between them,
\* in hours, is at least the setup time of the one that is strictly later;
\* the setup time of the earlier one is not used; with a setup time of 24,
\* 24 hours are enough and 23 hours and 59 minutes are not
SetupTimeOfLatest ==
    (pc = "return" /\ fn = "bi_difftime") =>
        /\ MinutesOf(args[1]) > MinutesOf(args[2]) =>
              (ret <=> MinutesOf(args[1]) - MinutesOf(args[2])
                         >= 60 * args[1].setup)
        /\ MinutesOf(args[2]) > MinutesOf(args[1]) =>
              (ret <=> MinutesOf(args[2]) - MinutesOf(args[1])
                         >= 60 * args[2].setup)
        /\ (/\ MinutesOf(args[1]) - MinutesOf(args[2]) = 24 * 60
            /\ args[1].setup = 24) => ret
        /\ (/\ MinutesOf(args[1]) - MinutesOf(args[2]) = 24 * 60 - 1
            /\ args[1].setup = 24) => ~ret

\* bi_difftime was false of two values 23 hours and 59 minutes apart, the
\* latest with a setup time of 24 and the earliest with a setup time of 1
SetupTimeMissedByAMinute ==
    /\ pc = "return"
    /\ fn = "bi_difftime"
    /\ MinutesOf(args[1]) - MinutesOf(args[2]) = 24 * 60 - 1
    /\ args[1].setup = 24
    /\ args[2].setup = 1
    /\ ~ret

\* ------------------------------------------------------------------------
\* the filter of the domain of a variable, called on its own
\* ------------------------------------------------------------------------

\* the most unit date constraints and unit time constraints of a variable
MaxUnitDate == 2
MaxUnitTime == 1

\* the unit date constraints and the unit time constraints get_constraints
\* returns for texts such as ">=2024-05-01" and "<9:00"
UnitDates ==
    {EXMUniConstraint(operator, DateTime(2024, 5, day, 0, 0, 0)) :
        operator \in Operators, day \in {1, 2}}

UnitTimes == {EXMUniConstraint(operator, Time(9, 0, 0)) : operator \in Operators}

\* the variable get_variables builds for a row with the given unit
\* constraints
FilterVariable(dates, times) ==
    new_variable_build(
        EXMVariable(<<"G">>, <<"x">>, 1, 1, UnsetDate, UnsetTime,
                    DEFAULT_SETUP_TIME, <<"G">>, <<"B">>, 2),
        [uni_date |-> dates, bi |-> <<>>], [uni_time |-> times, bi |-> <<>>],
        Unbound, Unbound, <<>>).value

FilterVariables ==
    {FilterVariable(dates, times) :
        dates \in UNION {[1..n -> UnitDates] : n \in 0..MaxUnitDate},
        times \in UNION {[1..n -> UnitTimes] : n \in 0..MaxUnitTime}}

\* the rows of the sheets of timeslots the filter is called with
FilterTimeslots ==
    { <<>>,
      << Slots(DateTime(2024, 4, 30, 0, 0, 0), <<TimeCell(Time(9, 0, 0)), Blank>>),
         Slots(DateTime(2024, 5, 1, 0, 0, 0),
               <<TimeCell(Time(8, 59, 0)), TimeCell(Time(9, 0, 0))>>),
         Slots(DateTime(2024, 5, 2, 0, 0, 0), <<Blank, TimeCell(Time(9, 0, 0))>>) >>,
      << Slots(DateTime(2024, 5, 2, 0, 0, 0), <<TimeCell(Time(9, 0, 0)), Blank>>),
         Slots(DateTime(2024, 5, 1, 0, 0, 0),
               <<TimeCell(Time(9, 0, 0)), TimeCell(Time(8, 59, 0))>>),
         Slots(DateTime(2024, 4, 30, 0, 0, 0), <<TimeCell(Time(9, 0, 0)), Blank>>) >> }

InitFilter ==
    /\ Idle
    /\ pc = "call"
    /\ fn = "filter"
    /\ args \in [variable : FilterVariables,
                 values : {get_values(rows) : rows \in FilterTimeslots}]
    /\ ret = <<>>

\* main filters the values of the timeslots for one variable of the pool
Filter ==
    /\ pc = "call"
    /\ fn = "filter"
    /\ pc' = "return"
    /\ ret' = idomain_loop(args.variable, args.values, 1)
    /\ UNCHANGED <<book, params, isheet, poolvar, indirect, domain, task,
                   ivariable, solution, log, raised, written, fn, args>>

SpecFilter == InitFilter /\ [][Filter]_vars

\* a value satisfies every unit date constraint of a variable by its date
\* alone and every unit time constraint by its time of the day alone
Admits(variable, value) ==
    /\ \A k \in 1..Len(variable.date_uniconstraints) :
          \A n \in 1..Len(variable.date_uniconstraints[k].list) :
             Compare(variable.date_uniconstraints[k].list[n].operator,
                     DateOf(value.datetime),
                     DateOf(variable.date_uniconstraints[k].list[n].const))
    /\ \A k \in 1..Len(variable.time_uniconstraints) :
          \A n \in 1..Len(variable.time_uniconstraints[k].list) :
             Compare(variable.time_uniconstraints[k].list[n].operator,
                     value.datetime.hour * 3600 + value.datetime.minute * 60
                        + value.datetime.second,
                     SecondsOf(variable.time_uniconstraints[k].list[n].const))

\* the dates and times of a list of values
Datetimes(values) == [k \in 1..Len(values) |-> values[k].datetime]

PoolKeysDistinct ==
    \A i, j \in 1..Len(poolvar.vars) :
        i # j => poolvar.vars[i].cellname # poolvar.vars[j].cellname

\* the resolver has loaded a variable whose cellname was already in the pool:
\* the key that triggered the load is written with a leading zero in the row
LoadedTwice ==
    /\ pc \in {"indirects", "values"}
    /\ \E i, j \in 1..Len(poolvar.vars) :
          /\ i < j
          /\ poolvar.vars[i].cellname = poolvar.vars[j].cellname
    /\ \E i \in 1..Len(poolvar.vars) :
          /\ Constraints_contains(poolvar.vars[i].date_biconstraints,
                                  <<"$", "G", ".", "B", "0", "3">>)
          /\ ~PoolVar_contains(poolvar, <<"$", "G", ".", "B", "0", "3">>)

\* ------------------------------------------------------------------------
\* a set of constraints, used on its own
\* ------------------------------------------------------------------------

\* the most constraints under one key
MaxList == 3

\* the keys and the constraints the set is used with
ConstraintKeys == {<<"$", "G", ".", "B", "2">>, <<"$", "G", ".", "B", "3">>}

ConstraintValues ==
    {EXMUniConstraint(">", DateTime(2024, 5, 1, 0, 0, 0)),
     EXMUniConstraint("<", DateTime(2024, 5, 2, 0, 0, 0))}

\* the list a set of constraints holds under a key, empty when it holds none
ListOf(c, key) ==
    IF \E i \in 1..Len(c) : c[i].key = key
    THEN c[CHOOSE i \in 1..Len(c) : c[i].key = key].list
    ELSE <<>>

\* what is kept of an operation on the set: its name, its arguments, the set
\* before it and its result
Called(op, key, value, before, found, count, list) ==
    [op |-> op, key |-> key, value |-> value, before |-> before,
     found |-> found, count |-> count, list |-> list]

InitConstraints ==
    /\ Idle
    /\ pc = "call"
    /\ fn = "EXMConstraints"
    /\ args = EXMConstraints
    /\ ret = Called("__init__", <<>>, <<>>, <<>>, FALSE, 0, <<>>)

\* constraints[key] = value
SetItem ==
    /\ fn = "EXMConstraints"
    /\ \E key \in ConstraintKeys :
       \E value \in UNION {[1..n -> ConstraintValues] : n \in 1..2} :
          /\ Len(ListOf(args, key)) + Len(value) <= MaxList
          /\ args' = Constraints_setitem(args, key, value)
          /\ ret' = Called("__setitem__", key, value, args, FALSE, 0, <<>>)
    /\ UNCHANGED <<book, params, pc, isheet, poolvar, indirect, domain, task,
                   ivariable, solution, log, raised, written, fn>>

\* EXMVariable.set_date_uniconstraints(value) on the set of the variable
SetUniconstraints ==
    /\ fn = "EXMConstraints"
    /\ \E key \in ConstraintKeys :
       \E value \in [1..2 -> ConstraintValues] :
          /\ Len(ListOf(args, key)) + Len(value) <= MaxList
          /\ args' = set_uniconstraints(args, key, value, 1)
          /\ ret' = Called("set_date_uniconstraints", key, value, args,
                           FALSE, 0, <<>>)
    /\ UNCHANGED <<book, params, pc, isheet, poolvar, indirect, domain, task,
                   ivariable, solution, log, raised, written, fn>>

\* key in constraints
Contains ==
    /\ fn = "EXMConstraints"
    /\ \E key \in ConstraintKeys :
          ret' = Called("__contains__", key, <<>>, args,
                        Constraints_contains(args, key), 0, <<>>)
    /\ UNCHANGED <<book, params, pc, isheet, poolvar, indirect, domain, task,
                   ivariable, solution, log, raised, written, fn, args>>

\* len(constraints)
Length ==
    /\ fn = "EXMConstraints"
    /\ ret' = Called("__len__", <<>>, <<>>, args, FALSE,
                     Constraints_len(args), <<>>)
    /\ UNCHANGED <<book, params, pc, isheet, poolvar, indirect, domain, task,
                   ivariable, solution, log, raised, written, fn, args>>

\* constraints.keys()
Keys ==
    /\ fn = "EXMConstraints"
    /\ ret' = Called("keys", <<>>, <<>>, args, FALSE, 0, Constraints_keys(args))
    /\ UNCHANGED <<book, params, pc, isheet, poolvar, indirect, domain, task,
                   ivariable, solution, log, raised, written, fn, args>>

\* constraints[key]
GetItem ==
    /\ fn = "EXMConstraints"
    /\ \E key \in ConstraintKeys :
          /\ args' = Constraints_getitem(args, key).set
          /\ ret' = Called("__getitem__", key, <<>>, args, FALSE, 0,
                           Constraints_getitem(args, key).value)
    /\ UNCHANGED <<book, params, pc, isheet, poolvar, indirect, domain, task,
                   ivariable, solution, log, raised, written, fn>>

NextConstraints ==
    \/ SetItem
    \/ SetUniconstraints
    \/ Contains
    \/ Length
    \/ Keys
    \/ GetItem

SpecConstraints == InitConstraints /\ [][NextConstraints]_vars

\* C12: inserting constraints under a key the set already holds appends them
\* after the constraints stored under the key and keeps the earlier ones in
\* their order, and leaves the other keys as they were; setting the list
\* [c1, c2] of a variable leaves c1 and then c2 under the key
InsertAppends ==
    (fn = "EXMConstraints"
       /\ ret.op \in {"__setitem__", "set_date_uniconstraints"}) =>
        /\ ListOf(args, ret.key) = ListOf(ret.before, ret.key) \o ret.value
        /\ \A key \in ConstraintKeys \ {ret.key} :
              ListOf(args, key) = ListOf(ret.before, key)
        /\ \A i \in 1..Len(ret.before) : args[i].key = ret.before[i].key

\* two different constraints c1 and c2 were set under a key that already
\* held a constraint
InsertedUnderKnownKey ==
    /\ fn = "EXMConstraints"
    /\ ret.op = "set_date_uniconstraints"
    /\ Len(ListOf(ret.before, ret.key)) = 1
    /\ ret.value[1] # ret.value[2]
    /\ ListOf(args, ret.key) = ListOf(ret.before, ret.key) \o ret.value

\* C13: after any sequence of operations on a set of constraints no key maps
\* to an empty list, and reading a key never creates an entry: it changes
\* neither the keys, nor the length, nor a later membership test
NoEmptyList ==
    fn = "EXMConstraints" =>
        /\ \A i \in 1..Len(args) : args[i].list # <<>>
        /\ ret.op = "__getitem__" =>
              /\ Len(args) = Len(ret.before)
              /\ \A key \in ConstraintKeys :
                    (\E i \in 1..Len(args) : args[i].key = key)
                       <=> (\E i \in 1..Len(ret.before) : ret.before[i].key = key)

\* a key that was never inserted was read and is now a key of the set, with
\* an empty list
ReadCreatedKey ==
    /\ fn = "EXMConstraints"
    /\ ret.op = "__getitem__"
    /\ ~(\E i \in 1..Len(ret.before) : ret.before[i].key = ret.key)
    /\ \E i \in 1..Len(args) : args[i].key = ret.key /\ args[i].list = <<>>
    /\ Len(args) = Len(ret.before) + 1

\* ------------------------------------------------------------------------
\* the values of the domains as objects: the filter of main, called on its
\* own over a memory of values
\* ------------------------------------------------------------------------

\* the number of variables whose domains are filtered
NumItems == 2

\* a variant of copy.deepcopy that returns the value it was given
deepcopy_alias(heap, ref) == [heap |-> heap, ref |-> ref]

\* copy.deepcopy(ivalue): a new value in the memory, equal to the one given
deepcopy(heap, ref) == [heap |-> Append(heap, heap[ref]), ref |-> Len(heap) + 1]

\* EXMValue.set_setup on the value a reference points to
Heap_set_setup(heap, ref, setup) == [heap EXCEPT ![ref] = set_setup(@, setup)]

\* the loop of main over the values of the domain, from the k-th on: heap
\* is the memory, domain the references to the values of the timeslots and
\* idomain the references accepted so far
RECURSIVE idomain_copy_loop(_, _, _, _, _)
RECURSIVE idomain_copy_append(_, _, _, _, _)
idomain_copy_loop(heap, ivar, refs, k, idomain) ==
    IF k > Len(refs) THEN [heap |-> heap, idomain |-> idomain]
    ELSE IF uni_is_compatible(ivar, heap[refs[k]])
    THEN idomain_copy_append(deepcopy(heap, refs[k]), ivar, refs, k, idomain)
    ELSE idomain_copy_loop(heap, ivar, refs, k + 1, idomain)

\* newval.set_setup(ivariable.get_setup()); idomain.append(newval)
idomain_copy_append(newval, ivar, refs, k, idomain) ==
    idomain_copy_loop(Heap_set_setup(newval.heap, newval.ref, ivar.setup),
                      ivar, refs, k + 1, Append(idomain, newval.ref))

\* the variables whose domains are filtered: no or one unit date constraint,
\* and a setup time
CopyVariables ==
    {[FilterVariable(dates, <<>>) EXCEPT !.setup = setup] :
        dates \in UNION {[1..n -> {c \in UnitDates : c.operator \in {">=", "<"}}] :
                            n \in 0..1},
        setup \in {1, DEFAULT_SETUP_TIME, 48}}

\* the values of the timeslots the domains are filtered from
CopyValues ==
    get_values(<< Slots(DateTime(2024, 5, 1, 0, 0, 0),
                        <<TimeCell(Time(9, 0, 0)), Blank>>),
                  Slots(DateTime(2024, 5, 2, 0, 0, 0),
                        <<TimeCell(Time(8, 59, 0)), TimeCell(Time(9, 0, 0))>>) >>)

\* the memory after get_values, the references of the domain and the
\* references of the domains of the variables filtered so far; touched is
\* the reference set_setup was last called on after the filter, 0 before
InitCopy ==
    /\ Idle
    /\ pc = "call"
    /\ fn = "domains"
    /\ args \in [1..NumItems -> CopyVariables]
    /\ ret = [heap |-> CopyValues,
              domain |-> [k \in 1..Len(CopyValues) |-> k],
              idomains |-> <<>>, touched |-> 0, before |-> <<>>]

\* one turn of the loop of main over the variables: the domain of the next
\* variable is filtered
FilterDomain ==
    /\ fn = "domains"
    /\ pc = "call"
    /\ Len(ret.idomains) < NumItems
    /\ \E r \in {idomain_copy_loop(ret.heap, args[Len(ret.idomains) + 1],
                                   ret.domain, 1, <<>>)} :
          ret' = [ret EXCEPT !.heap = r.heap,
                             !.idomains = Append(@, r.idomain)]
    /\ pc' = IF Len(ret.idomains) + 1 = NumItems THEN "return" ELSE "call"
    /\ UNCHANGED <<book, params, isheet, poolvar, indirect, domain, task,
                   ivariable, solution, log, raised, written, fn, args>>

\* set_setup is called on a value of the domain of a variable
SetSetup ==
    /\ fn = "domains"
    /\ pc = "return"
    /\ ret.touched = 0
    /\ \E i \in 1..NumItems :
       \E k \in 1..Len(ret.idomains[i]) :
       \E setup \in {1, DEFAULT_SETUP_TIME, 48} \ {args[i].setup} :
          ret' = [ret EXCEPT
                    !.heap = Heap_set_setup(@, ret.idomains[i][k], setup),
                    !.touched = ret.idomains[i][k],
                    !.before = ret.heap]
    /\ UNCHANGED <<book, params, pc, isheet, poolvar, indirect, domain, task,
                   ivariable, solution, log, raised, written, fn, args>>

NextCopy == FilterDomain \/ SetSetup

SpecCopy == InitCopy /\ [][NextCopy]_vars

\* C14: the filtered domain of a variable holds copies of the admitted
\* values, each with the setup time of the variable; the filter leaves the
\* values of the timeslots as they were, each with its setup time of 24; and
\* setting the setup time of a value of the domain of a variable changes no
\* value of the domain of another variable, even when both admit the same
\* slot
DomainsHoldCopies ==
    fn = "domains" =>
        /\ Datetimes([k \in 1..Len(ret.domain) |-> ret.heap[ret.domain[k]]])
              = Datetimes(CopyValues)
        /\ \A k \in 1..Len(ret.domain) : ret.heap[ret.domain[k]].setup = 24
        /\ \A i \in 1..Len(ret.idomains) :
              /\ Datetimes([k \in 1..Len(ret.idomains[i]) |->
                               ret.heap[ret.idomains[i][k]]])
                   = Datetimes(SelectSeq(CopyValues,
                                         LAMBDA value : Admits(args[i], value)))
              /\ \A k \in 1..Len(ret.idomains[i]) :
                    \/ ret.heap[ret.idomains[i][k]].setup = args[i].setup
                    \/ ret.idomains[i][k] = ret.touched
        /\ ret.touched # 0 =>
              \A ref \in 1..Len(ret.heap) \ {ret.touched} :
                 ret.heap[ref] = ret.before[ref]

\* two variables with setup times 48 and 1 admit the same slot, and the
\* setup time of the value of that slot in the domain of the first was set
\* to 24: the value of the slot in the domain of the second still has 1
SameSlotOtherSetup ==
    /\ fn = "domains"
    /\ ret.touched # 0
    /\ args[1].setup = 48
    /\ args[2].setup = 1
    /\ \E k \in 1..Len(ret.idomains[1]) :
          /\ ret.idomains[1][k] = ret.touched
          /\ ret.heap[ret.touched].setup = 24
          /\ \E n \in 1..Len(ret.idomains[2]) :
                /\ ret.heap[ret.idomains[2][n]].datetime
                     = ret.heap[ret.touched].datetime
                /\ ret.heap[ret.idomains[2][n]].setup = 1

\* ------------------------------------------------------------------------
\* the lookup of a record by its location
\* ------------------------------------------------------------------------

\* a sheet of the book has the name of a location (sheet, column, row), and
\* no record of the sheet has its subject at that column and row: the
\* subjects are in the column B, from the row 2 on
NoRowAt(location) ==
    /\ \E i \in 1..Len(book) : book[i].name = location[1]
    /\ \A i \in 1..Len(book) :
          book[i].name = location[1] =>
             \/ location[2] # <<"B">>
             \/ location[3] < 2
             \/ location[3] > Len(book[i].rows) + 1

\* C15: the lookup of a location (sheet, column, row) at which the sheet has
\* no record fails with an error that names the location and returns no
\* variable; in the resolver the pool is left as it was and the run goes on
\* neither to the domains nor to the constraints
LookupFails ==
    [][/\ pc = "halt" => pc' = "halt"
       /\ (pc = "indirects" /\ indirect # <<>> /\ NoRowAt(indirect)) =>
          /\ ~get_variable(book, indirect[1], indirect[2], indirect[3]).ok
          /\ get_variable(book, indirect[1], indirect[2], indirect[3]).message
               = Error("ERROR_UNKNOWN_REGISTER",
                       <<"$">> \o indirect[1] \o <<".">> \o indirect[2]
                          \o StrOf(indirect[3]),
                       <<>>)
          /\ pc' = "halt"
          /\ raised' = "ValueError"
          /\ poolvar'.vars = poolvar.vars
          /\ domain' = <<>>
          /\ task' = Problem
          /\ solution' = <<>>
          /\ written' = {}]_vars

\* the resolver looked up a location with no record and the run halted with
\* the pool it had
LookupFailed ==
    /\ pc = "halt"
    /\ raised = "ValueError"
    /\ indirect # <<>>
    /\ NoRowAt(indirect)
    /\ poolvar.vars # <<>>
    /\ task = Problem

\* ------------------------------------------------------------------------
\* the dates and times of the variables
\* ------------------------------------------------------------------------

\* C16: once the solver has returned a solution, the date of every variable
\* of the pool is the date and time of a value of the domain of the variable
\* itself, which satisfies its unit date and unit time constraints, and its
\* time is the time of the day of that date; until a solution is returned
\* the date and the time of every variable are the ones it was created with
AssignedFromDomain ==
    \A i \in 1..Len(poolvar.vars) :
        IF solution = <<>>
        THEN /\ poolvar.vars[i].date = DateTime(1, 1, 1, 0, 0, 0)
             /\ poolvar.vars[i].time = Time(0, 0, 0)
        ELSE /\ \E k \in 1..Len(task.variables) :
                   /\ task.variables[k].variable = poolvar.vars[i].cellname
                   /\ \E n \in 1..Len(task.variables[k].domain) :
                         /\ task.variables[k].domain[n].datetime
                              = poolvar.vars[i].date
                         /\ Admits(poolvar.vars[i], task.variables[k].domain[n])
             /\ poolvar.vars[i].time.hour = poolvar.vars[i].date.hour
             /\ poolvar.vars[i].time.minute = poolvar.vars[i].date.minute
             /\ poolvar.vars[i].time.second = poolvar.vars[i].date.second

\* a solution was returned for a pool of two variables or more, one of them
\* with unit constraints that do not admit every value of the timeslots
AssignedUnderConstraints ==
    /\ pc = "done"
    /\ solution # <<>>
    /\ Len(poolvar.vars) >= 2
    /\ \E i \in 1..Len(poolvar.vars) :
          /\ poolvar.vars[i].date_uniconstraints # EXMConstraints
          /\ poolvar.vars[i].date # DateTime(1, 1, 1, 0, 0, 0)
          /\ \E k \in 1..Len(domain) : ~Admits(poolvar.vars[i], domain[k])

\* no assignment of values of their domains to the variables of the task
\* satisfies every constraint
Unsolvable ==
    \A a \in [1..Len(task.variables) -> 1..LongestDomain(task)] :
        ~IsSolution(task, a)

\* C17: when the solver finds no solution, the date and the time of every
\* variable of the pool stay the ones it was created with, neither the
\* spreadsheet nor the calendar is written, and the error that is reported
\* names no variable
NoSolutionNoOutput ==
    [][(pc = "constraints" /\ pc' = "done" /\ Unsolvable) =>
          /\ solution' = <<>>
          /\ \A i \in 1..Len(poolvar'.vars) :
                /\ poolvar'.vars[i].date = DateTime(1, 1, 1, 0, 0, 0)
                /\ poolvar'.vars[i].time = Time(0, 0, 0)
          /\ poolvar'.vars = poolvar.vars
          /\ written' = {}
          /\ log' = Append(log, Error("ERROR_SOLUTION_NOT_FOUND", <<>>, <<>>))
          /\ raised' = ""]_vars

\* no solution was found for a task of two variables or more, each with
\* values in its domain, and with constraints
NoSolutionFound ==
    /\ pc = "done"
    /\ solution = <<>>
    /\ Len(task.variables) >= 2
    /\ task.constraints # <<>>
    /\ Unsolvable
    /\ written = {}
    /\ Len(log) > 0
    /\ log[Len(log)] = Error("ERROR_SOLUTION_NOT_FOUND", <<>>, <<>>)

\* ------------------------------------------------------------------------
\* the pool over a run
\* ------------------------------------------------------------------------

\* a variable of the pool but for the date and the time the solution gives it
Unassigned(variable) ==
    [variable EXCEPT !.date = DateTime(1, 1, 1, 0, 0, 0), !.time = Time(0, 0, 0)]

\* C18: the pool only grows at its end: over every step of a run (loading,
\* resolver, domains, constraints, solution) the variables the pool held are
\* the first ones of the pool afterwards, in the same order, none removed or
\* replaced, and a cellname that was in the pool is still in it
PoolAppendOnly ==
    [][/\ Len(poolvar.vars) <= Len(poolvar'.vars)
       /\ \A i \in 1..Len(poolvar.vars) :
             /\ Unassigned(poolvar'.vars[i]) = Unassigned(poolvar.vars[i])
             /\ \E j \in 1..Len(poolvar'.vars) :
                   poolvar'.vars[j].cellname = poolvar.vars[i].cellname]_vars

\* a run with a filter on course 1 loaded a variable, the resolver added
\* another of a different course after it, and a solution was given to both
PoolGrewAndSolved ==
    /\ pc = "done"
    /\ solution # <<>>
    /\ params.course = 1
    /\ params.load_indirects
    /\ Len(poolvar.vars) >= 2
    /\ poolvar.vars[1].course = 1
    /\ poolvar.vars[Len(poolvar.vars)].course # 1
    /\ poolvar.vars[1].date # DateTime(1, 1, 1, 0, 0, 0)

\* ------------------------------------------------------------------------
\* get_uni_time_constraint, called on its own
\* ------------------------------------------------------------------------

\* the parts of the texts get_uni_time_constraint is called with: each part
\* is its text and what it stands for
TimeOperators ==
    {[text |-> OperatorAlternatives[k], operator |-> OperatorSymbols[k]] :
        k \in 1..Len(OperatorAlternatives)}

TimeHours ==
    {[text |-> <<"0">>, n |-> 0], [text |-> <<"9">>, n |-> 9],
     [text |-> <<"0", "9">>, n |-> 9], [text |-> <<"1", "1">>, n |-> 11],
     [text |-> <<"1", "2">>, n |-> 12]}

TimeMinutes ==
    {[text |-> <<"0", "0">>, n |-> 0], [text |-> <<"5">>, n |-> 5],
     [text |-> <<"5", "9">>, n |-> 59]}

TimeSeconds ==
    {[text |-> <<>>, n |-> 0], [text |-> <<":", "0">>, n |-> 0],
     [text |-> <<":", "3", "0">>, n |-> 30]}

TimeQualifiers ==
    {[text |-> <<>>, qualifier |-> ""], [text |-> <<"A", "M">>, qualifier |-> "AM"],
     [text |-> <<"P", "M">>, qualifier |-> "PM"],
     [text |-> <<" ", "P", "M">>, qualifier |-> "PM"]}

\* the text of a unit time constraint
TimeText(operator, hour, minutes, seconds, qualifier) ==
    operator.text \o hour.text \o <<":">> \o minutes.text \o seconds.text
       \o qualifier.text

InitTime ==
    /\ Idle
    /\ pc = "call"
    /\ fn = "get_uni_time_constraint"
    /\ args \in [operator : TimeOperators, hour : TimeHours,
                 minutes : TimeMinutes, seconds : TimeSeconds,
                 qualifier : TimeQualifiers]
    /\ ret = <<>>

\* get_uni_time_constraint is called with the text of the parts
ParseTime ==
    /\ pc = "call"
    /\ fn = "get_uni_time_constraint"
    /\ pc' = "return"
    /\ ret' = get_uni_time_constraint(
                 TimeText(args.operator, args.hour, args.minutes, args.seconds,
                          args.qualifier))
    /\ UNCHANGED <<book, params, isheet, poolvar, indirect, domain, task,
                   ivariable, solution, log, raised, written, fn, args>>

SpecTime == InitTime /\ [][ParseTime]_vars

\* C19: of a valid text of a unit time constraint with hour h, minutes m and
\* maybe seconds and AM or PM: with AM or neither and h < 12 the hour is h;
\* with PM and h < 12 it is h + 12; with PM and h = 12 it is 12; the minutes
\* are m; seconds that are left out are 0 and an operator that is left out
\* is "="
TimeParsed ==
    (pc = "return" /\ fn = "get_uni_time_constraint") =>
        /\ ret.ok
        /\ (args.qualifier.qualifier # "PM" /\ args.hour.n < 12)
              => ret.value.const.hour = args.hour.n
        /\ (args.qualifier.qualifier = "PM" /\ args.hour.n < 12)
              => ret.value.const.hour = args.hour.n + 12
        /\ (args.qualifier.qualifier = "PM" /\ args.hour.n = 12)
              => ret.value.const.hour = 12
        /\ ret.value.const.minute = args.minutes.n
        /\ ret.value.const.second = args.seconds.n
        /\ ret.value.operator
             = (IF args.operator.operator = "" THEN "=" ELSE args.operator.operator)

\* "11:59 PM", with no operator and no seconds, was parsed as = 23:59:00
TimeWithPM ==
    /\ pc = "return"
    /\ fn = "get_uni_time_constraint"
    /\ args.operator.operator = ""
    /\ args.hour.n = 11
    /\ args.minutes.n = 59
    /\ args.seconds.text = <<>>
    /\ args.qualifier.text = <<" ", "P", "M">>
    /\ ret = Return(EXMUniConstraint("=", Time(23, 59, 0)))

\* ------------------------------------------------------------------------
\* get_biconstraint, called on its own
\* ------------------------------------------------------------------------

\* the parts of the texts get_biconstraint is called with
BiSheets == {<<"G">>, <<"E">>}

BiQualifiers == {<<>>} \cup {<<"$">> \o sheet \o <<".">> : sheet \in BiSheets}

BiCells == {<<"B", "2">>, <<"B", "3">>, <<"B", "0", "3">>, <<"B", "2", "1">>}

InitBi ==
    /\ Idle
    /\ pc = "call"
    /\ fn = "get_biconstraint"
    /\ args \in [sheetname : BiSheets,
                 operator : {OperatorAlternatives[k] :
                                k \in 1..Len(OperatorAlternatives)},
                 qualifier : BiQualifiers, cell : BiCells]
    /\ ret = <<>>

\* get_biconstraint is called in a sheet with the text of the parts; the
\* resolver computes the location of the key, and the variable of the record
\* at that location is created, alone in a pool
ParseBi ==
    /\ pc = "call"
    /\ fn = "get_biconstraint"
    /\ pc' = "return"
    /\ \E c \in {get_biconstraint(args.operator \o args.qualifier \o args.cell,
                                  args.sheetname)} :
       \E m \in {get_next_indirect_key(EXMPoolVar, c.value.var)} :
          ret' = [key |-> c.value.var,
                  location |-> m.value,
                  pool |-> PoolVar_iadd(EXMPoolVar,
                              <<EXMVariable(m.value[1], <<"x">>, 1, 1,
                                            UnsetDate, UnsetTime,
                                            DEFAULT_SETUP_TIME, m.value[1],
                                            m.value[2], m.value[3])>>)]
    /\ UNCHANGED <<book, params, isheet, poolvar, indirect, domain, task,
                   ivariable, solution, log, raised, written, fn, args>>

SpecBi == InitBi /\ [][ParseBi]_vars

\* C20: of the text of a binary constraint in a sheet S that names the cell
\* C, the key is $S.C when the text names no sheet and $T.C when it names
\* the sheet T, whatever S is; in both cases the key is the cellname of the
\* variable created from the record at that location, so that the pool that
\* holds the variable holds the key
KeyIsCellname ==
    (pc = "return" /\ fn = "get_biconstraint") =>
        /\ ret.key = (IF args.qualifier = <<>>
                      THEN <<"$">> \o args.sheetname \o <<".">>
                      ELSE args.qualifier) \o args.cell
        /\ ret.pool.vars[1].cellname = ret.key
        /\ PoolVar_contains(ret.pool, ret.key)

\* the text names the cell B03 of the sheet G: the key is $G.B03 and the
\* variable of the record at column B, row 3 has the cellname $G.B3
KeyWithLeadingZero ==
    /\ pc = "return"
    /\ fn = "get_biconstraint"
    /\ args.cell = <<"B", "0", "3">>
    /\ ret.key = <<"$", "G", ".", "B", "0", "3">>
    /\ ret.location = << <<"G">>, <<"B">>, 3 >>
    /\ ret.pool.vars[1].cellname = <<"$", "G", ".", "B", "3">>
    /\ ~PoolVar_contains(ret.pool, ret.key)

\* ------------------------------------------------------------------------
\* the constraints the parser produces, written with str() and parsed again
\* ------------------------------------------------------------------------

\* the text of an operator
OperatorText(operator) ==
    OperatorAlternatives[CHOOSE k \in 1..Len(OperatorSymbols) :
                            OperatorSymbols[k] = operator]

\* str() of the constant of a unit constraint: YYYY-MM-DD HH:MM:SS of a
\* datetime.datetime and HH:MM:SS of a datetime.time
StrOfConst(exmconst) ==
    IF "year" \in DOMAIN exmconst
    THEN StrOfDate(exmconst) \o <<" ">> \o StrOfTime(TimeOf(exmconst))
    ELSE StrOfTime(exmconst)

\* a variant of EXMUniConstraint.__str__ that writes the constant alone
EXMUniConstraint_str_const(c) == StrOfConst(c.const)

\* EXMUniConstraint.__str__(): "{0} {1}".format(operator, const)
EXMUniConstraint_str(c) == OperatorText(c.operator) \o <<" ">> \o StrOfConst(c.const)

\* EXMBiConstraint.__str__(): "{0} {1}".format(operator, var)
EXMBiConstraint_str(c) == OperatorText(c.operator) \o <<" ">> \o c.var

\* the patterns get_constraints tries on a fragment, in its order: the kind
\* of the constraint and the constraint, or no constraint
parse_fragment(iconstraint, sheetname) ==
    IF get_uni_date_constraint(iconstraint).ok
    THEN [ok |-> TRUE, kind |-> "date",
          value |-> get_uni_date_constraint(iconstraint).value]
    ELSE IF get_uni_time_constraint(iconstraint).ok
    THEN [ok |-> TRUE, kind |-> "time",
          value |-> get_uni_time_constraint(iconstraint).value]
    ELSE IF get_biconstraint(iconstraint, sheetname).ok
    THEN [ok |-> TRUE, kind |-> "binary",
          value |-> get_biconstraint(iconstraint, sheetname).value]
    ELSE [ok |-> FALSE]

\* str() of a constraint of a kind
Canonical(kind, c) ==
    IF kind = "binary" THEN EXMBiConstraint_str(c) ELSE EXMUniConstraint_str(c)

\* the texts that are parsed: an operator, or none, and a date with either
\* separator, a time or a cell
RoundTripDates ==
    {<<"2", "0", "2", "4", "-", "0", "1", "-", "1", "5">>,
     <<"2", "0", "2", "4", "/", "1", "/", "5">>,
     <<" ", "2", "0", "2", "4", "-", "1", "2", "/", "3", "1">>,
     <<"0", "0", "0", "1", "/", "0", "2", "/", "2">>,
     <<"2", "0", "2", "3", "-", "0", "2", "-", "2", "9">>}

RoundTripTimes ==
    {<<"9", ":", "0", "0">>, <<"0", "9", ":", "5", ":", "7">>,
     <<"1", "1", ":", "5", "9", " ", "P", "M">>,
     <<"1", "2", ":", "3", "0", "A", "M">>,
     <<"2", "4", ":", "0", "0">>}

RoundTripCells ==
    {qualifier \o cell : qualifier \in BiQualifiers, cell \in BiCells}

RoundTripTexts ==
    {OperatorAlternatives[k] \o text :
        k \in 1..Len(OperatorAlternatives),
        text \in RoundTripDates \cup RoundTripTimes \cup RoundTripCells}

InitRoundTrip ==
    /\ Idle
    /\ pc = "call"
    /\ fn = "parse"
    /\ args \in [text : RoundTripTexts, sheetname : BiSheets, again : BiSheets]
    /\ ret = <<>>

\* the text is parsed in a sheet
ParseText ==
    /\ pc = "call"
    /\ fn = "parse"
    /\ pc' = "parsed"
    /\ ret' = [first |-> parse_fragment(args.text, args.sheetname)]
    /\ UNCHANGED <<book, params, isheet, poolvar, indirect, domain, task,
                   ivariable, solution, log, raised, written, fn, args>>

\* str() of the constraint that was produced is parsed, in some sheet
ParseCanonical ==
    /\ pc = "parsed"
    /\ fn = "parse"
    /\ ret.first.ok
    /\ pc' = "return"
    /\ ret' = [first |-> ret.first,
               canonical |-> Canonical(ret.first.kind, ret.first.value),
               second |-> parse_fragment(
                             Canonical(ret.first.kind, ret.first.value),
                             args.again)]
    /\ UNCHANGED <<book, params, isheet, poolvar, indirect, domain, task,
                   ivariable, solution, log, raised, written, fn, args>>

NextRoundTrip == ParseText \/ ParseCanonical

SpecRoundTrip == InitRoundTrip /\ [][NextRoundTrip]_vars

\* C21: of every constraint the parser produces, of a date with either
\* separator, of a time or of a cell, with any operator or with none, str()
\* of the constraint is parsed to a constraint of the same kind, with the
\* same operator and the same constant or the same key
RoundTrip ==
    (pc = "return" /\ fn = "parse") =>
        /\ ret.second.ok
        /\ ret.second.kind = ret.first.kind
        /\ ret.second.value.operator = ret.first.value.operator
        /\ ret.first.kind = "binary"
              => ret.second.value.var = ret.first.value.var
        /\ ret.first.kind # "binary"
              => ret.second.value.const = ret.first.value.const

\* "<=2024/1/5" was parsed as <= 2024-01-05, written as
\* "<= 2024-01-05 00:00:00" and parsed again
RoundTripOfDate ==
    /\ pc = "return"
    /\ fn = "parse"
    /\ args.text = <<"<", "=", "2", "0", "2", "4", "/", "1", "/", "5">>
    /\ ret.first.kind = "date"
    /\ ret.canonical = <<"<", "=", " ", "2", "0", "2", "4", "-", "0", "1", "-",
                         "0", "5", " ", "0", "0", ":", "0", "0", ":", "0", "0">>
    /\ ret.second = ret.first

\* ------------------------------------------------------------------------
\* the scans of the resolver
\* ------------------------------------------------------------------------

\* get_next_indirect over the whole pool, from its first variable on
FullScan(pool) == get_next_indirect([pool EXCEPT !.idx = 0])

\* C22: every turn of the loop of the resolver scans the pool from its first
\* variable on, whether or not the scan before it ended early at a missing
\* key, and the loop stops only when a scan of every variable of the pool
\* finds no missing key
ScansFromFirst ==
    [][(pc = "indirects" /\ indirect # <<>> /\ poolvar'.vars # poolvar.vars) =>
          /\ poolvar.idx = 0
          /\ (pc' = "indirects" /\ indirect' = <<>>) =>
                (FullScan(poolvar').ok /\ FullScan(poolvar').value = <<>>)]_vars

\* the loop of the resolver loaded a variable and stopped, and a scan of the
\* pool from its first variable on finds a missing key
StoppedAfterPartialScan ==
    /\ pc = "indirects"
    /\ indirect = <<>>
    /\ poolvar.idx = 0
    /\ Len(poolvar.vars) = 2
    /\ poolvar.vars[2].date_biconstraints = EXMConstraints
    /\ FullScan(poolvar).ok
    /\ FullScan(poolvar).value = << <<"E">>, <<"B">>, 2 >>

\* ------------------------------------------------------------------------
\* the end of the loop of the resolver
\* ------------------------------------------------------------------------

\* nbvars = len(poolvar) when the loop over the sheets is over: the number of
\* variables of the sheets of exams from the k-th sheet on that the filters
\* let through
RECURSIVE nbvars(_, _, _)
nbvars(workbook, p, k) ==
    IF k > Len(workbook) THEN 0
    ELSE IF workbook[k].name = Timeslots THEN nbvars(workbook, p, k + 1)
    ELSE Len(get_variables(workbook[k], p.grade, p.course, p.semester).value)
           + nbvars(workbook, p, k + 1)

\* the places of the pool of the variables the resolver appended
Appended == (nbvars(book, params, 1) + 1)..Len(poolvar.vars)

\* C23: the loop of the resolver stops, with an error when a location has no
\* row and otherwise after it appended at most one variable for each row of
\* the sheets: it never appends a variable for the same location again and
\* again, also when rows refer to each other or to themselves
AppendedOncePerRow ==
    pc = "indirects" =>
        \A i \in Appended : \A j \in Appended :
            poolvar.vars[i].cellname = poolvar.vars[j].cellname => i = j

\* the loop of the resolver appended two variables for the row 3 of the
\* sheet G and is about to read the same row once more: the variable it
\* appended last holds the key that is still missing
LoadsSameRowAgain ==
    /\ pc = "indirects"
    /\ indirect = << <<"G">>, <<"B">>, 3 >>
    /\ Cardinality(Appended) >= 2
    /\ \A i \in Appended : poolvar.vars[i].cellname = <<"$", "G", ".", "B", "3">>
    /\ get_variable(book, indirect[1], indirect[2], indirect[3]).ok
    /\ get_variable(book, indirect[1], indirect[2], indirect[3]).value
          = poolvar.vars[Len(poolvar.vars)]
    /\ ~PoolVar_contains(poolvar,
           poolvar.vars[Len(poolvar.vars)].date_biconstraints[1].key)

\* ------------------------------------------------------------------------
\* the number of constraints of the setup time
\* ------------------------------------------------------------------------

\* the pairs of places i < j of the pool that hold distinct variables of the
\* same grade and course
GapPairs ==
    {e \in (1..Len(poolvar.vars)) \X (1..Len(poolvar.vars)) :
        /\ e[1] < e[2]
        /\ ~EXMVariable_eq(poolvar.vars[e[1]], poolvar.vars[e[2]])
        /\ SameGradeAndCourse(poolvar.vars[e[1]], poolvar.vars[e[2]])}

\* the constraints of the task with the predicate of the setup time
GapBindings ==
    {c \in 1..Len(task.constraints) : task.constraints[c].func = "bi_difftime"}

\* C24: once every constraint is created, the predicate of the setup time is
\* bound exactly once for each pair, in either order, of distinct variables
\* of the pool of the same grade and course, so that the task holds as many
\* such constraints as there are pairs, and not twice as many
GapBoundOncePerPair ==
    AssemblyDone =>
        /\ \A e \in GapPairs :
              Added("bi_difftime", poolvar.vars[e[1]].cellname,
                    poolvar.vars[e[2]].cellname)
                + Added("bi_difftime", poolvar.vars[e[2]].cellname,
                        poolvar.vars[e[1]].cellname) = 1
        /\ Cardinality(GapBindings) = Cardinality(GapPairs)

\* the pool holds three variables, two of them of the same grade and
\* course, and the task holds the predicate of the setup time over that
\* pair in both orders: two constraints for one pair
GapBoundTwice ==
    /\ AssemblyDone
    /\ Len(poolvar.vars) = 3
    /\ GapPairs = {<<1, 2>>}
    /\ Added("bi_difftime", poolvar.vars[1].cellname, poolvar.vars[2].cellname) = 1
    /\ Added("bi_difftime", poolvar.vars[2].cellname, poolvar.vars[1].cellname) = 1
    /\ Cardinality(GapBindings) = 2

\* ------------------------------------------------------------------------
\* bi_difftime, called on two values in both orders
\* ------------------------------------------------------------------------

\* the cells of the column Setup of the rows the variables are created from
SetupCells ==
    {Blank, IntCell(0), StrCell(<<"0">>), IntCell(1), IntCell(48), IntCell(-1)}

\* the setup time get_variables gives the variable of a row with a cell in
\* the column Setup
BuiltSetup(cell) ==
    get_variables(SheetG(<<Row(1, 1, Blank, Blank, cell)>>), <<>>, 0, 0).value[1].setup

\* the values of the timeslots, each with the setup time of a variable, as
\* in the domains of the variables
BuiltValues ==
    {set_setup(get_values(SheetTimeslots.rows)[k], BuiltSetup(cell)) :
        k \in 1..Len(get_values(SheetTimeslots.rows)), cell \in SetupCells}

InitSymmetry ==
    /\ Idle
    /\ pc = "call"
    /\ fn = "bi_difftime, both orders"
    /\ args \in BuiltValues \X BuiltValues
    /\ ret = <<>>

\* the solver evaluates bi_difftime on two values, in both orders
DifftimeBothOrders ==
    /\ pc = "call"
    /\ fn = "bi_difftime, both orders"
    /\ pc' = "return"
    /\ ret' = [ab |-> bi_difftime(args[1], args[2]),
               ba |-> bi_difftime(args[2], args[1])]
    /\ UNCHANGED <<book, params, isheet, poolvar, indirect, domain, task,
                   ivariable, solution, log, raised, written, fn, args>>

SpecSymmetry == InitSymmetry /\ [][DifftimeBothOrders]_vars

\* C25: bi_difftime is symmetric: of any two values a and b, also of the
\* same date and time, with any setup times the variables can have,
\* bi_difftime(a, b) and bi_difftime(b, a) are the same
DifftimeSymmetric ==
    (pc = "return" /\ fn = "bi_difftime, both orders") => ret.ab = ret.ba

\* of two values of the same date and time, the first with the setup time 0
\* and the second with the setup time 24, bi_difftime is false in one order
\* and true in the other
SameTimeNotSymmetric ==
    /\ pc = "return"
    /\ fn = "bi_difftime, both orders"
    /\ args[1].datetime = args[2].datetime
    /\ args[1].setup = 0
    /\ args[2].setup = DEFAULT_SETUP_TIME
    /\ ~ret.ab
    /\ ret.ba

\* ------------------------------------------------------------------------
\* get_constraints, called on its own
\* ------------------------------------------------------------------------

MaxFragments == 3

\* the fragments of the texts get_constraints is called with: each one is
\* its text, the list it belongs to and the constraint it stands for in the
\* sheet G; a blank fragment belongs to no list and a fragment of no
\* pattern is an error
Fragments ==
    {[text |-> <<"<", "2", "0", "2", "4", "-", "0", "5", "-", "0", "2">>,
      kind |-> "date",
      value |-> EXMUniConstraint("<", DateTime(2024, 5, 2, 0, 0, 0))],
     [text |-> <<" ", "2", "0", "2", "4", "/", "5", "/", "1">>,
      kind |-> "date",
      value |-> EXMUniConstraint("=", DateTime(2024, 5, 1, 0, 0, 0))],
     [text |-> <<"9", ":", "0", "0">>,
      kind |-> "time",
      value |-> EXMUniConstraint("=", Time(9, 0, 0))],
     [text |-> <<">", "=", " ", "1", ":", "3", "0", " ", "P", "M">>,
      kind |-> "time",
      value |-> EXMUniConstraint(">=", Time(13, 30, 0))],
     [text |-> <<"B", "3">>,
      kind |-> "binary",
      value |-> EXMBiConstraint("=", <<"$", "G", ".", "B", "3">>)],
     [text |-> <<"!", "=", "$", "E", ".", "B", "2">>,
      kind |-> "binary",
      value |-> EXMBiConstraint("!=", <<"$", "E", ".", "B", "2">>)],
     [text |-> <<>>, kind |-> "blank", value |-> <<>>],
     [text |-> <<" ", " ">>, kind |-> "blank", value |-> <<>>],
     [text |-> <<"#">>, kind |-> "error", value |-> <<>>]}

\* the texts of the fragments from the k-th on, with commas between them
RECURSIVE Joined(_, _)
Joined(fragments, k) ==
    IF k > Len(fragments) THEN <<>>
    ELSE IF k = Len(fragments) THEN fragments[k].text
    ELSE fragments[k].text \o <<",">> \o Joined(fragments, k + 1)

\* the constraints of the fragments of a kind, in their order
RECURSIVE OfKind(_, _, _)
OfKind(fragments, kind, k) ==
    IF k > Len(fragments) THEN <<>>
    ELSE (IF fragments[k].kind = kind THEN <<fragments[k].value>> ELSE <<>>)
           \o OfKind(fragments, kind, k + 1)

InitParse ==
    /\ Idle
    /\ pc = "call"
    /\ fn = "get_constraints"
    /\ args \in UNION {[1..n -> Fragments] : n \in 0..MaxFragments}
    /\ ret = <<>>

\* get_constraints is called in the sheet G with the text of a cell
ParseCell ==
    /\ pc = "call"
    /\ fn = "get_constraints"
    /\ pc' = "return"
    /\ ret' = get_constraints(Joined(args, 1), <<"G">>, <<"B", "2">>)
    /\ UNCHANGED <<book, params, isheet, poolvar, indirect, domain, task,
                   ivariable, solution, log, raised, written, fn, args>>

SpecParse == InitParse /\ [][ParseCell]_vars

\* C26: the text of a cell is split at the commas; the blank fragments are
\* left out and every other fragment is added to exactly one of the three
\* lists, of unit date, unit time and binary constraints, the first of them
\* whose pattern it has: the lists hold as many constraints as there are
\* fragments that are not blank, each list in the order of its fragments,
\* and the three lists of an empty text are empty
CellParsed ==
    (pc = "return" /\ fn = "get_constraints") =>
        /\ ret.ok <=> \A k \in 1..Len(args) : args[k].kind # "error"
        /\ ret.ok =>
              /\ ret.uni_date = OfKind(args, "date", 1)
              /\ ret.uni_time = OfKind(args, "time", 1)
              /\ ret.bi = OfKind(args, "binary", 1)
              /\ Len(ret.uni_date) + Len(ret.uni_time) + Len(ret.bi)
                    = Cardinality({k \in 1..Len(args) : args[k].kind # "blank"})
        /\ Len(args) = 0 =>
              (ret.ok /\ ret.uni_date = <<>> /\ ret.uni_time = <<>> /\ ret.bi = <<>>)

\* the text "B3,  ,<2024-05-02" was parsed to one unit date constraint and
\* one binary constraint
CellOfThreeFragments ==
    /\ pc = "return"
    /\ fn = "get_constraints"
    /\ Joined(args, 1) = <<"B", "3", ",", " ", " ", ",", "<", "2", "0", "2", "4",
                           "-", "0", "5", "-", "0", "2">>
    /\ ret.ok
    /\ ret.uni_date = <<EXMUniConstraint("<", DateTime(2024, 5, 2, 0, 0, 0))>>
    /\ ret.uni_time = <<>>
    /\ ret.bi = <<EXMBiConstraint("=", <<"$", "G", ".", "B", "3">>)>>

\* ------------------------------------------------------------------------
\* the setup time of a variable
\* ------------------------------------------------------------------------

\* the sheet of the book a cellname names
SheetOf(cellname) ==
    book[Min(SheetsNamed(book, RE_CELLNAME(cellname).sheet))]

\* C27: the setup time of a variable is the integer of the cell Setup of its
\* row whenever its sheet has the column Setup and the cell is not blank,
\* whatever integer the cell holds, 0 too; it is the default of 24 only when
\* the sheet has no such column or the cell is blank
SetupFromRow ==
    \A i \in 1..Len(poolvar.vars) :
        poolvar.vars[i].setup
          = IF /\ SpsReader_contains(SheetOf(poolvar.vars[i].cellname), "Setup")
               /\ RowOf(poolvar.vars[i].cellname).Setup # Blank
            THEN RowOf(poolvar.vars[i].cellname).Setup.number
            ELSE DEFAULT_SETUP_TIME

\* the pool holds a variable of a row whose cell Setup holds 0, with the
\* setup time 24, and a variable of a row whose cell Setup holds 48, with
\* the setup time 48
ZeroSetupDefaulted ==
    /\ \E i \in 1..Len(poolvar.vars) :
          /\ RowOf(poolvar.vars[i].cellname).Setup = IntCell(0)
          /\ poolvar.vars[i].setup = DEFAULT_SETUP_TIME
    /\ \E i \in 1..Len(poolvar.vars) :
          /\ RowOf(poolvar.vars[i].cellname).Setup = IntCell(48)
          /\ poolvar.vars[i].setup = 48

\* ------------------------------------------------------------------------
\* the cells of a type stringize does not know
\* ------------------------------------------------------------------------

\* a row whose date or time is none of a string, a datetime, a date and a time
UnknownType(irow) == ~stringize(irow.Fecha).ok \/ ~stringize(irow.Hora).ok

\* C28: a row whose date or time is of a type stringize does not know is
\* fatal: the run halts, and no variable is created for the row with the
\* constraints of the date or of the time of a row read before it
UnknownTypeIsFatal ==
    /\ \A i \in 1..Len(poolvar.vars) :
          ~UnknownType(RowOf(poolvar.vars[i].cellname))
    /\ (Logged("ERROR_UNKNOWN_TYPE_DATE") \/ Logged("ERROR_UNKNOWN_TYPE_TIME")) =>
          pc = "halt"

\* the date of the row 3 of the sheet G is a number: the error was logged,
\* the variable of the row is in the pool with the binary date constraint
\* "<B3" of the row 2, and the run went on until the files were written
BuiltFromRowBefore ==
    /\ Logged("ERROR_UNKNOWN_TYPE_DATE")
    /\ pc = "done"
    /\ written # {}
    /\ Len(poolvar.vars) >= 2
    /\ poolvar.vars[2].cellname = <<"$", "G", ".", "B", "3">>
    /\ RowOf(poolvar.vars[2].cellname).Fecha = IntCell(5)
    /\ RowOf(poolvar.vars[1].cellname).Fecha = StrCell(<<"<", "B", "3">>)
    /\ poolvar.vars[2].date_biconstraints
          = <<[key |-> <<"$", "G", ".", "B", "3">>,
               list |-> <<EXMBiConstraint("<", <<"$", "G", ".", "B", "3">>)>>]>>

\* ------------------------------------------------------------------------
\* SpsReader.get_cellname, called on its own
\* ------------------------------------------------------------------------

\* the indexes, from 0 on, of the columns get_cellname is asked about: the
\* columns of one letter, the first of two letters, and the last of two
\* letters and the first of three
CellnameColumns == (0..53) \cup (672..704)

\* the rows of data the iterator returned last
CellnameRows == 1..2

\* a sheet whose header has the key Asignatura at a column and holds the
\* rows of data of CellnameRows
SheetWithColumn(jcolumn) ==
    [name |-> <<"G">>,
     header |-> [i \in 1..(jcolumn + 1) |->
                    IF i = jcolumn + 1 THEN "Asignatura" ELSE "Curso"],
     yoffset |-> 1,
     rows |-> [k \in CellnameRows |-> Row(1, 1, Blank, Blank, Blank)]]

\* the name of the n-th column of a spreadsheet, n from 1 on: A..Z, AA..AZ,
\* BA.., ZZ, AAA..
RECURSIVE SpreadsheetColumn(_)
SpreadsheetColumn(n) ==
    IF n = 0 THEN <<>>
    ELSE SpreadsheetColumn((n - 1) \div Base)
           \o <<ChrFromA[((n - 1) % Base) + 2]>>

InitCellname ==
    /\ Idle
    /\ pc = "call"
    /\ fn = "get_cellname"
    /\ args \in [jcolumn : CellnameColumns, row : CellnameRows]
    /\ ret = <<>>

\* the iterator returned a row of data and get_cellname is called with the
\* key of a column
GetCellname ==
    /\ pc = "call"
    /\ fn = "get_cellname"
    /\ pc' = "return"
    /\ ret' = get_cellname(SheetWithColumn(args.jcolumn), args.row, "Asignatura")
    /\ UNCHANGED <<book, params, isheet, poolvar, indirect, domain, task,
                   ivariable, solution, log, raised, written, fn, args>>

SpecCellname == InitCellname /\ [][GetCellname]_vars

\* C29: of the column with index c, from 0 on, of the header and the row of
\* data the iterator returned last, get_cellname returns the name of the
\* column as a spreadsheet names it, in letters from A to Z only (0 is A, 25
\* is Z, 26 is AA, 51 is AZ, 676 is ZA, 701 is ZZ, 702 is AAA), and then the
\* number of the row in the sheet, from 1 on; the names of two columns differ
CellnameOfColumn ==
    (pc = "return" /\ fn = "get_cellname") =>
        /\ ret.ok
        /\ ret.value = SpreadsheetColumn(args.jcolumn + 1)
                         \o StrOf(args.row + 1)
        /\ \A c \in CellnameColumns :
              c # args.jcolumn =>
                 get_cellname(SheetWithColumn(c), args.row, "Asignatura").value
                    # ret.value

\* of the column with index 676, which a spreadsheet names ZA, and the
\* second row of the sheet, get_cellname returned A@A2, which is not the
\* name of a cell: get_columnrow raises ValueError on it
ColumnAfterYZ ==
    /\ pc = "return"
    /\ fn = "get_cellname"
    /\ args.jcolumn = 676
    /\ args.row = 1
    /\ SpreadsheetColumn(677) = <<"Z", "A">>
    /\ ret = Return(<<"A", "@", "A", "2">>)
    /\ ~get_columnrow(ret.value).ok

\* ------------------------------------------------------------------------
\* the solutions of the task
\* ------------------------------------------------------------------------

\* the minutes between the values two variables have in an assignment
MinutesApart(a, icell, jcell) ==
    IF MinutesOf(ValueOf(task, a, icell)) >= MinutesOf(ValueOf(task, a, jcell))
    THEN MinutesOf(ValueOf(task, a, icell)) - MinutesOf(ValueOf(task, a, jcell))
    ELSE MinutesOf(ValueOf(task, a, jcell)) - MinutesOf(ValueOf(task, a, icell))

\* the setup time of the one of two variables with the later value in an
\* assignment, and the largest of both when the values are the same
SetupOfLater(a, xi, xj) ==
    IF MinutesOf(ValueOf(task, a, xi.cellname))
          > MinutesOf(ValueOf(task, a, xj.cellname))
    THEN xi.setup
    ELSE IF MinutesOf(ValueOf(task, a, xi.cellname))
               < MinutesOf(ValueOf(task, a, xj.cellname))
    THEN xj.setup
    ELSE Max({xi.setup, xj.setup})

====
